---- MODULE Spec2Model ----
(***************************************************************************)
(* signal-controller: message ingestion (signal_processor.py), the SQLite  *)
(* message/conversation store (database/db.py) and the webhook fan-out     *)
(* (backend/webhooks.py).                                                  *)
(*                                                                         *)
(* Python values: a dict is a function whose DOMAIN is its key set, a list *)
(* is a sequence, None is the string "None".  Times are in milliseconds.   *)
(***************************************************************************)
EXTENDS Integers, Sequences, FiniteSets, TLC

\* ------------------------------------------------------------------ bounds
\* calls of process_incoming_message explored in the ingestion specification
MaxEvents == 2
\* calls of process_incoming_message explored in the fan-out specification
MaxFanouts == 1
\* calls of process_incoming_message explored with a subscription store that raises
MaxFaultyFanouts == 1
\* wall clock, in seconds
MaxNow == 2

\* calls of the webhook router in one run
MaxApiCalls == 2

\* connection attempts of the listener in one run
MaxAttempts == 3

\* lines the listener reads in one run
MaxLines == 2

\* calls of process_incoming_message in the conversation specification
MaxPeerEvents == 3

\* calls of process_incoming_message in the system specification
MaxSystemEvents == 2

\* events received while the subscriber changes its subscription
MaxResubscribeEvents == 1

\* calls of process_incoming_message in the delivery specification
MaxDeliverEvents == 2

\* ------------------------------------------------------------ Python values
None == "None"

\* {} : the dict with no key
EmptyDict == [k \in {} |-> None]

\* dict.get(key, default)
Get(d, k, default) == IF k \in DOMAIN d THEN d[k] ELSE default

\* Python truthiness of an optional string, of a list, of a dict
TruthyStr(v) == v # None /\ v # ""
TruthyList(l) == Len(l) > 0
TruthyDict(d) == DOMAIN d # {}

\* json.dumps(v): the text of v.  The text of a text is another value than
\* the text itself.
JsonDumps(v) == [json_text_of |-> v]

\* a column holding SQL NULL where the other rows hold a JSON text
JsonNull == [json_null |-> TRUE]

\* None where a datetime [at |-> ms] is expected
NullDatetime == [datetime_null |-> TRUE]

\* ------------------------------------------------------------ input events
\* what json.loads can hand to process_incoming_message
SourceOptions ==
    { EmptyDict,
      [sourceNumber |-> "+1", sourceName |-> "Al"],
      [sourceNumber |-> None, source |-> "uuid-2"],
      [source |-> "uuid-2"] }

TimestampOptions == { EmptyDict, [timestamp |-> 1000] }

DataMessages ==
    { [message |-> "hi"],
      [message |-> None, attachments |-> << [contentType |-> "image/png", id |-> "a1"] >>],
      [message |-> "hi", groupInfo |-> [groupId |-> "g1", groupName |-> "Team"]] }

DataMessageOptions == { EmptyDict } \cup { [dataMessage |-> dm] : dm \in DataMessages }

Envelopes ==
    { s @@ t @@ m : s \in SourceOptions, t \in TimestampOptions, m \in DataMessageOptions }

\* a decoded JSON value: an object (with or without an envelope) or not an object
Events ==
    { [json |-> "object", obj |-> [envelope |-> e]] : e \in Envelopes }
      \cup { [json |-> "object", obj |-> EmptyDict], [json |-> "array", obj |-> EmptyDict] }

\* the events of the fan-out specification: one individual message, one
\* receipt-like event without dataMessage
FanoutEvents ==
    { [json |-> "object",
       obj |-> [envelope |-> [sourceNumber |-> "+1", sourceName |-> "Al", timestamp |-> 1000,
                              dataMessage |-> [message |-> "hi"]]]],
      [json |-> "object",
       obj |-> [envelope |-> [sourceNumber |-> "+1", sourceName |-> "Al", timestamp |-> 1000]]] }

\* faults the SQLite layer can raise inside one call
StoreFaults == { "none", "store_message", "update_conversation" }

VARIABLES
    messages,        \* table messages: sequence of rows in insertion order
    conversations,   \* table conversations: set of rows
    sqlite_sequence, \* AUTOINCREMENT counters, per table
    subscriptions,   \* table webhook_subscriptions: sequence of rows in rowid order
    tasks,           \* tasks made by asyncio.create_task(notify_webhooks_func(..))
    now,             \* wall clock (seconds)
    calls,           \* number of process_incoming_message calls so far
    handled,         \* the last process_incoming_message call and how it ended
    api,             \* the last call of the webhook router and its HTTP answer
    listener         \* where listen_to_signal_events stands

vars ==
    << messages, conversations, sqlite_sequence, subscriptions, tasks, now, calls, handled,
       api, listener >>

\* ------------------------------------------------------------ database/db.py
\* CURRENT_TIMESTAMP
CurrentTimestamp == now * 1000

\* mutation of StoreMessageUpsert: a plain INSERT, no ON CONFLICT clause
StoreMessageInsert(convs, conversation_id, conversation_name, is_group, group_id) ==
    convs \cup { [contact_number |-> conversation_id,
                  contact_name |-> conversation_name,
                  last_message_at |-> CurrentTimestamp,
                  message_count |-> 1,
                  created_at |-> CurrentTimestamp,
                  is_group |-> is_group,
                  group_id |-> group_id] }

\* db.py:167-176: the upsert of store_message on conversations(contact_number)
StoreMessageUpsert(convs, conversation_id, conversation_name, is_group, group_id) ==
    IF \E r \in convs : r.contact_number = conversation_id
    THEN { IF r.contact_number = conversation_id
           THEN [r EXCEPT !.contact_name = conversation_name,
                          !.last_message_at = CurrentTimestamp,
                          !.message_count = r.message_count + 1,
                          !.is_group = is_group,
                          !.group_id = group_id]
           ELSE r : r \in convs }
    ELSE convs \cup { [contact_number |-> conversation_id,
                       contact_name |-> conversation_name,
                       last_message_at |-> CurrentTimestamp,
                       message_count |-> 1,
                       created_at |-> CurrentTimestamp,
                       is_group |-> is_group,
                       group_id |-> group_id] }

\* db.py:360-367: the upsert of update_conversation; COALESCE keeps the old
\* value where the new one is NULL.  last_message_at is a datetime [at |-> ms].
UpdateConversationUpsert(convs, contact_number, contact_name, last_message_at) ==
    IF \E r \in convs : r.contact_number = contact_number
    THEN { IF r.contact_number = contact_number
           THEN [r EXCEPT !.contact_name =
                              IF contact_name # None THEN contact_name ELSE r.contact_name,
                          !.last_message_at =
                              IF last_message_at # NullDatetime THEN last_message_at.at
                              ELSE r.last_message_at,
                          !.message_count = r.message_count + 1]
           ELSE r : r \in convs }
    ELSE convs \cup { [contact_number |-> contact_number,
                       contact_name |-> contact_name,
                       last_message_at |-> last_message_at.at,
                       message_count |-> 1,
                       created_at |-> CurrentTimestamp,
                       is_group |-> 0,
                       group_id |-> None] }

\* mutation of NextMessageId: the counter is read but not advanced
StaleMessageId(db) == IF db.sqlite_sequence = 0 THEN 1 ELSE db.sqlite_sequence

\* db.py:41, 159: id INTEGER PRIMARY KEY AUTOINCREMENT, read back as lastrowid
NextMessageId(db) == db.sqlite_sequence + 1

\* mutation of InsertMessage: the new row takes the place of the last one
ReplaceLastMessage(msgs, row) ==
    IF msgs = <<>> THEN << row >> ELSE Append(SubSeq(msgs, 1, Len(msgs) - 1), row)

\* db.py:143-157: INSERT INTO messages
InsertMessage(msgs, row) == Append(msgs, row)

\* mutation of LastRowId: the id of the oldest row is handed back
FirstRowId(msgs) == msgs[1].id

\* db.py:159: message_id = cursor.lastrowid, read right after the INSERT
LastRowId(msgs) == msgs[Len(msgs)].id

\* db.py:109-185 store_message on db = [messages, conversations, sqlite_sequence].
\* The INSERT and the upsert are one transaction: a raise before commit()
\* leaves the file as it was.  Result: [raised, db, message_id].
store_message(db, sender_number, sender_name, timestamp, message_body, attachments, raw_data, group_id, group_name, fault) ==
    IF sender_number = None \/ fault = "store_message"
    THEN [raised |-> TRUE, db |-> db, message_id |-> 0]
    ELSE LET attachments_json ==
                 IF attachments # JsonNull THEN JsonDumps(attachments) ELSE JsonNull
             raw_data_json ==
                 IF raw_data # JsonNull THEN JsonDumps(raw_data) ELSE JsonNull
             message_id == NextMessageId(db)
             row == [id |-> message_id,
                     sender_number |-> sender_number,
                     sender_name |-> sender_name,
                     timestamp |-> timestamp,
                     received_at |-> CurrentTimestamp,
                     message_body |-> message_body,
                     attachments |-> attachments_json,
                     raw_data |-> raw_data_json,
                     processed |-> 0,
                     group_id |-> group_id,
                     group_name |-> group_name]
             conversation_id == IF TruthyStr(group_id) THEN group_id ELSE sender_number
             conversation_name == IF TruthyStr(group_name) THEN group_name ELSE sender_name
             is_group == IF TruthyStr(group_id) THEN 1 ELSE 0
         IN  [raised |-> FALSE,
              db |-> [messages |-> InsertMessage(db.messages, row),
                      conversations |-> StoreMessageUpsert(db.conversations, conversation_id,
                                                           conversation_name, is_group, group_id),
                      sqlite_sequence |-> message_id],
              message_id |-> LastRowId(InsertMessage(db.messages, row))]

\* db.py:341-370 update_conversation.  Result: [raised, db].
update_conversation(db, contact_number, contact_name, last_message_at, fault) ==
    IF fault = "update_conversation"
    THEN [raised |-> TRUE, db |-> db]
    ELSE [raised |-> FALSE,
          db |-> [db EXCEPT !.conversations =
                      UpdateConversationUpsert(db.conversations, contact_number,
                                               contact_name, last_message_at)]]

\* ------------------------------------------------- backend/signal_processor.py
\* datetime.fromtimestamp(timestamp / 1000)
FromTimestamp(timestamp) == [at |-> timestamp]

\* signal_processor.py:71-79: the normalised attachment list
AttachmentInfo(attachments) ==
    [i \in 1..Len(attachments) |->
        [content_type |-> Get(attachments[i], "contentType", ""),
         filename |-> Get(attachments[i], "filename", ""),
         id |-> Get(attachments[i], "id", ""),
         size |-> Get(attachments[i], "size", 0)]]

\* signal_processor.py:105-115: the envelope handed to the fan-out
WebhookData(message_id, source_number, source_name, message_body, timestamp, group_id, group_name, attachment_info) ==
    [event |-> "new_message",
     message_id |-> message_id,
     sender_number |-> source_number,
     sender_name |-> source_name,
     message_body |-> message_body,
     timestamp |-> timestamp,
     group_id |-> group_id,
     group_name |-> group_name,
     attachments |-> attachment_info]

\* a new asyncio task running notify_all_webhooks(message_data), not yet run
NewTask(message_data) ==
    [message_data |-> message_data, status |-> "pending", deliveries |-> <<>>]

\* mutant of SkipsEvent: the check of line 53 is missing
SkipsNoEvent(envelope) == FALSE

\* signal_processor.py:53: is the event skipped as a non-message event
SkipsEvent(envelope) == "dataMessage" \notin DOMAIN envelope

\* mutation of UpdatesSender: update_conversation is called for every message
UpdatesSenderAlways(group_id) == TRUE

\* signal_processor.py:93-101: update_conversation is called in the else
\* branch of `if group_id`
UpdatesSender(group_id) == ~TruthyStr(group_id)

\* mutation of Propagates: the handler goes on after a call that raised
PropagatesNever(result) == FALSE

\* an exception raised by a call in the try body of lines 49-116 leaves the
\* body at that call
Propagates(result) == result.raised

\* signal_processor.py:47-119 process_incoming_message, from the state
\* db = [messages, conversations, sqlite_sequence] and the task list ts.
\* Result: [db, tasks, outcome]; outcome is "skipped" (line 54), "dispatched"
\* (line 116 reached) or "dropped" (the except of line 118).
process_incoming_message(db, ts, data, fault) ==
    IF data.json # "object"
    THEN [db |-> db, tasks |-> ts, outcome |-> "dropped", effects |-> <<>>]
    ELSE
    LET envelope == Get(data.obj, "envelope", EmptyDict) IN
    IF SkipsEvent(envelope)
    THEN [db |-> db, tasks |-> ts, outcome |-> "skipped", effects |-> <<>>]
    ELSE
    LET source_number == Get(envelope, "sourceNumber", Get(envelope, "source", "unknown"))
        source_name == Get(envelope, "sourceName", "")
        timestamp == Get(envelope, "timestamp", now * 1000)
        data_message == Get(envelope, "dataMessage", EmptyDict)
        message_body == Get(data_message, "message", "")
        group_info == Get(data_message, "groupInfo", EmptyDict)
        group_id == IF TruthyDict(group_info) THEN Get(group_info, "groupId", None) ELSE None
        group_name == IF TruthyDict(group_info) THEN Get(group_info, "groupName", None) ELSE None
        attachment_info == AttachmentInfo(Get(data_message, "attachments", <<>>))
        stored == store_message(db, source_number, source_name, timestamp, message_body,
                                IF TruthyList(attachment_info)
                                THEN JsonDumps(attachment_info) ELSE JsonNull,
                                JsonDumps(data), group_id, group_name, fault)
        \* db.py:140-176: the INSERT into messages, then the conversations upsert
        stored_effects == IF stored.raised THEN <<>> ELSE << "messages", "conversations" >>
    IN
    IF Propagates(stored)
    THEN [db |-> stored.db, tasks |-> ts, outcome |-> "dropped", effects |-> stored_effects]
    ELSE
    LET updated == IF ~UpdatesSender(group_id)
                   THEN [raised |-> FALSE, db |-> stored.db]
                   ELSE update_conversation(stored.db, source_number, source_name,
                                            FromTimestamp(timestamp), fault)
        updated_effects == IF ~UpdatesSender(group_id) \/ updated.raised
                           THEN stored_effects
                           ELSE Append(stored_effects, "conversations")
    IN
    \* lines 94 and 102 slice message_body[:50]: a TypeError when it is None
    IF Propagates(updated) \/ message_body = None
    THEN [db |-> updated.db, tasks |-> ts, outcome |-> "dropped", effects |-> updated_effects]
    ELSE [db |-> updated.db,
          tasks |-> Append(ts, NewTask(WebhookData(stored.message_id, source_number,
                                                   source_name, message_body, timestamp,
                                                   group_id, group_name, attachment_info))),
          outcome |-> "dispatched",
          effects |-> Append(updated_effects, "dispatch")]

\* the faults the store can raise in the call for data: none unless the call
\* gets past the return of line 54 to the store calls of lines 82-101
StoreFaultsIn(data) ==
    IF data.json = "object" /\ ~SkipsEvent(Get(data.obj, "envelope", EmptyDict))
    THEN StoreFaults
    ELSE { "none" }

\* mutation of AwaitsFanout: the handler awaits notify_webhooks_func
AwaitsFanoutAlways == TRUE

\* signal_processor.py:116: asyncio.create_task(...) is not awaited, the
\* handler returns while the task has yet to run
AwaitsFanout == FALSE

\* the fan-out tasks that have not returned
Running(ts) == { t \in DOMAIN ts : ts[t].status \in { "pending", "gathering" } }

\* one call of process_incoming_message(data), with the fault the store raises
\* in it; the caller is free to make it once the previous call has returned
ProcessIncomingMessage(events, limit) ==
    /\ calls < limit
    /\ AwaitsFanout => Running(tasks) = {}
    /\ \E data \in events :
       \E fault \in StoreFaultsIn(data) :
         LET r == process_incoming_message(
                      [messages |-> messages, conversations |-> conversations,
                       sqlite_sequence |-> sqlite_sequence], tasks, data, fault)
         IN  /\ messages' = r.db.messages
             /\ conversations' = r.db.conversations
             /\ sqlite_sequence' = r.db.sqlite_sequence
             /\ tasks' = r.tasks
             /\ handled' = [data |-> data, fault |-> fault, outcome |-> r.outcome,
                            effects |-> r.effects]
             /\ calls' = calls + 1
    /\ UNCHANGED << subscriptions, now, api, listener >>

\* the wall clock advances
Tick ==
    /\ now < MaxNow
    /\ now' = now + 1
    /\ UNCHANGED << messages, conversations, sqlite_sequence, subscriptions, tasks,
                    calls, handled, api, listener >>

\* ------------------------------------------------------ subscription store
\* table webhook_subscriptions, in rowid order: the rows a process can find
\* in the database file when it starts
Subscription(id, url, secret, enabled) ==
    [id |-> id, callback_url |-> url, secret |-> secret, enabled |-> enabled,
     success_count |-> 0, failure_count |-> 0]

InitialSubscriptions ==
    { <<>>,
      << Subscription(1, "http://u1/hook", "s1", FALSE) >>,
      << Subscription(1, "http://u1/hook", "s1", TRUE) >>,
      << Subscription(1, "http://u1/hook", "s1", TRUE),
         Subscription(2, "http://u2/hook", "s2", FALSE) >>,
      << Subscription(1, "http://u1/hook", "s1", TRUE),
         Subscription(2, "http://u2/hook", "s2", TRUE) >> }

\* db.get_webhook_subscriptions(enabled_only)
IsListed(row, enabled_only) == row.enabled \/ ~enabled_only

get_webhook_subscriptions(subs, enabled_only) ==
    SelectSeq(subs, LAMBDA row : IsListed(row, enabled_only))

\* db.update_webhook_success(callback_url)
update_webhook_success(subs, callback_url) ==
    [i \in 1..Len(subs) |->
        IF subs[i].callback_url = callback_url
        THEN [subs[i] EXCEPT !.success_count = subs[i].success_count + 1]
        ELSE subs[i]]

\* db.update_webhook_failure(callback_url)
update_webhook_failure(subs, callback_url) ==
    [i \in 1..Len(subs) |->
        IF subs[i].callback_url = callback_url
        THEN [subs[i] EXCEPT !.failure_count = subs[i].failure_count + 1]
        ELSE subs[i]]

\* ------------------------------------------------------- backend/webhooks.py
\* webhooks.py:102: retries are made while retry_count < 3
MaxRetries == 3

\* webhooks.py:17-23 compute_hmac: HMAC-SHA256 taken as a keyed digest that
\* differs whenever the key or the text differ
compute_hmac(payload, secret) == [hmac_sha256_key |-> secret, hmac_sha256_text |-> payload]

\* webhooks.py:72-88: the POST of one attempt
WebhookRequest(callback_url, secret, message_data) ==
    LET payload == JsonDumps(message_data)
        signature == compute_hmac(payload, secret)
    IN  [url |-> callback_url,
         content |-> payload,
         headers |-> [ContentType |-> "application/json", XSignalHMAC |-> signature]]

\* mutant of BackoffDelay: linear instead of exponential
BackoffDelayLinear(retry_count) == 2 * retry_count

\* webhooks.py:103: seconds slept before the retry that follows attempt retry_count
BackoffDelay(retry_count) == 2 ^ retry_count

\* mutant of RetriesAfter: off by one
RetriesAfterInclusive(retry_count) == retry_count <= MaxRetries

\* webhooks.py:102: is a failed attempt followed by a retry
RetriesAfter(retry_count) == retry_count < MaxRetries

\* a coroutine notify_webhook_subscriber(db, callback_url, secret, message_data)
\* wrapped in a task by gather and not yet started.  posts, responses, recorded
\* and waits log what the call has done so far.
NewDelivery(callback_url, secret, message_data) ==
    [callback_url |-> callback_url, secret |-> secret, message_data |-> message_data,
     retry_count |-> 0, status |-> "scheduled",
     posts |-> <<>>, responses |-> <<>>, recorded |-> <<>>, waits |-> <<>>,
     db_raised |-> FALSE]

Terminal(d) == d.status \in {"done", "raised"}

\* webhooks.py:70-88: the call (or the recursive call of line 104) runs up to
\* the await of client.post
SendPost(d) ==
    [d EXCEPT !.status = "awaiting",
              !.posts = Append(d.posts,
                               WebhookRequest(d.callback_url, d.secret, d.message_data))]

\* what an endpoint can answer: HTTP 200, another status, or no answer
\* (timeout, refused connection: httpx raises)
Responses == { "200", "500", "exception" }

\* which of the store calls of one attempt raise: the call in the try block
\* (line 92 or 95) is call 1, the call of the except block (line 99) is the
\* next one
DbFaults(response) ==
    IF response = "exception" THEN { {}, {1} } ELSE { {}, {1}, {1, 2} }

\* mutant of EntersExcept: the record-and-retry block runs after every attempt
EntersExceptAlways(response, faults) == TRUE

\* webhooks.py:97: does the try block of lines 70-95 end in the except block
EntersExcept(response, faults) == response = "exception" \/ 1 \in faults

\* mutation of StatusOk: every HTTP answer counts as delivered
StatusOkAny(response) == response # "exception"

\* webhooks.py:90: response.status_code == 200
StatusOk(response) == response = "200"

\* webhooks.py:90-104: the response of the POST arrives.  Result: the delivery
\* and the subscription table afterwards.
HandleResponse(d, subs, response, faults) ==
    LET tried == \* lines 90-95, the try block
            IF EntersExcept(response, faults)
            THEN [raised |-> TRUE, recorded |-> d.recorded, subs |-> subs]
            ELSE IF StatusOk(response)
            THEN [raised |-> FALSE, recorded |-> Append(d.recorded, "success"),
                  subs |-> update_webhook_success(subs, d.callback_url)]
            ELSE [raised |-> FALSE, recorded |-> Append(d.recorded, "failure"),
                  subs |-> update_webhook_failure(subs, d.callback_url)]
        d1 == [d EXCEPT !.responses = Append(d.responses, response),
                        !.recorded = tried.recorded,
                        !.db_raised = d.db_raised \/ faults # {}]
        except_call == IF response = "exception" THEN 1 ELSE 2
    IN
    IF ~tried.raised
    THEN [d |-> [d1 EXCEPT !.status = "done"], subs |-> tried.subs]
    ELSE IF except_call \in faults
    THEN \* line 99 raises inside the except block: the coroutine ends with it
         [d |-> [d1 EXCEPT !.status = "raised"], subs |-> subs]
    ELSE LET d2 == [d1 EXCEPT !.recorded = Append(d1.recorded, "failure")]
             subs2 == update_webhook_failure(subs, d.callback_url)
         IN  IF RetriesAfter(d.retry_count)
             THEN [d |-> [d2 EXCEPT !.status = "sleeping",
                                    !.waits = Append(d2.waits, BackoffDelay(d.retry_count))],
                   subs |-> subs2]
             ELSE [d |-> [d2 EXCEPT !.status = "done"], subs |-> subs2]

\* mutation of Recurse: the retry sends a payload stamped with its attempt
RecurseStamped(d) ==
    SendPost([d EXCEPT !.retry_count = d.retry_count + 1,
                       !.message_data = [d.message_data EXCEPT
                                            !.timestamp = d.retry_count + 1]])

\* webhooks.py:104: the sleep is over, the call recurses with retry_count + 1
Recurse(d) == SendPost([d EXCEPT !.retry_count = d.retry_count + 1])

\* mutant of SubscriptionsToNotify: enabled_only is not asked for
SubscriptionsToNotifyAny(subs) == get_webhook_subscriptions(subs, FALSE)

\* webhooks.py:109: the subscriptions a fan-out goes to
SubscriptionsToNotify(subs) == get_webhook_subscriptions(subs, TRUE)

\* mutant of MakeDeliveries: the last fetched subscription is left out
MakeDeliveriesButLast(subscribed, message_data) ==
    [i \in 1..(Len(subscribed) - 1) |->
        NewDelivery(subscribed[i].callback_url, subscribed[i].secret, message_data)]

\* webhooks.py:118-121: one coroutine per fetched subscription
MakeDeliveries(subscribed, message_data) ==
    [i \in 1..Len(subscribed) |->
        NewDelivery(subscribed[i].callback_url, subscribed[i].secret, message_data)]

\* webhooks.py:107-123 notify_all_webhooks up to its await.  fetch_raises: the
\* store raises in get_webhook_subscriptions.
notify_all_webhooks(task, subs, fetch_raises) ==
    IF fetch_raises
    THEN [task EXCEPT !.status = "raised"]
    ELSE LET subscribed == SubscriptionsToNotify(subs) IN
         IF Len(subscribed) = 0
         THEN [task EXCEPT !.status = "returned"]
         ELSE [task EXCEPT !.status = "gathering",
                           !.deliveries = MakeDeliveries(subscribed, task.message_data)]

\* mutant of MayRun: the coroutines are awaited one after the other
MayRunInTurn(deliveries, i) ==
    \A j \in 1..(i - 1) : deliveries[j].status \in {"done", "raised"}

\* webhooks.py:123 asyncio.gather(*tasks, return_exceptions=True): every
\* coroutine is a task of its own, runnable whatever the others do
MayRun(deliveries, i) == TRUE

\* webhooks.py:123: with return_exceptions=True gather returns the exceptions
\* as results; how notify_all_webhooks ends once every delivery has ended
GatherStatus(deliveries) == "returned"

\* mutation of TaskMayRun: a fan-out waits for the fan-outs created before it
TaskMayRunInOrder(ts, t) == \A u \in DOMAIN ts : u < t => ts[u].status = "returned"

\* signal_processor.py:116: each fan-out is a task of its own, which the event
\* loop runs whatever the state of the other tasks
TaskMayRun(ts, t) == TRUE

\* mutation of RetryAllowed: a retry is made only while the URL has a row
RetryOnlyIfSubscribed(subs, d) == \E k \in DOMAIN subs : subs[k].callback_url = d.callback_url

\* webhooks.py:102-104: the retry depends on retry_count alone, the
\* subscription store is not read again
RetryAllowed(subs, d) == TRUE

\* the event loop runs task t for the first time; faulty: the store may raise
NotifyAll(t, faulty) ==
    /\ tasks[t].status = "pending"
    /\ TaskMayRun(tasks, t)
    /\ \E fetch_raises \in (IF faulty THEN BOOLEAN ELSE {FALSE}) :
         tasks' = [tasks EXCEPT ![t] = notify_all_webhooks(tasks[t], subscriptions, fetch_raises)]
    /\ UNCHANGED << messages, conversations, sqlite_sequence, subscriptions, now, calls, handled, api, listener >>

\* delivery i of task t starts and sends its first POST
StartDelivery(t, i) ==
    /\ tasks[t].status = "gathering"
    /\ TaskMayRun(tasks, t)
    /\ tasks[t].deliveries[i].status = "scheduled"
    /\ MayRun(tasks[t].deliveries, i)
    /\ tasks' = [tasks EXCEPT ![t].deliveries[i] = SendPost(tasks[t].deliveries[i])]
    /\ UNCHANGED << messages, conversations, sqlite_sequence, subscriptions, now, calls, handled, api, listener >>

\* the POST of delivery i of task t is answered (or fails) and the outcome is
\* recorded; faulty: the store may raise
Respond(t, i, faulty) ==
    /\ tasks[t].status = "gathering"
    /\ TaskMayRun(tasks, t)
    /\ tasks[t].deliveries[i].status = "awaiting"
    /\ MayRun(tasks[t].deliveries, i)
    /\ \E response \in Responses :
         \E faults \in (IF faulty THEN DbFaults(response) ELSE {{}}) :
            LET r == HandleResponse(tasks[t].deliveries[i], subscriptions, response, faults)
            IN  /\ tasks' = [tasks EXCEPT ![t].deliveries[i] = r.d]
                /\ subscriptions' = r.subs
    /\ UNCHANGED << messages, conversations, sqlite_sequence, now, calls, handled, api, listener >>

\* the backoff sleep of delivery i of task t ends and the retry is sent
Wake(t, i) ==
    /\ tasks[t].status = "gathering"
    /\ TaskMayRun(tasks, t)
    /\ tasks[t].deliveries[i].status = "sleeping"
    /\ MayRun(tasks[t].deliveries, i)
    /\ RetryAllowed(subscriptions, tasks[t].deliveries[i])
    /\ tasks' = [tasks EXCEPT ![t].deliveries[i] = Recurse(tasks[t].deliveries[i])]
    /\ UNCHANGED << messages, conversations, sqlite_sequence, subscriptions, now, calls, handled, api, listener >>

\* every delivery of task t has ended: gather returns and so does notify_all_webhooks
GatherReturns(t) ==
    /\ tasks[t].status = "gathering"
    /\ \A i \in DOMAIN tasks[t].deliveries : Terminal(tasks[t].deliveries[i])
    /\ tasks' = [tasks EXCEPT ![t].status = GatherStatus(tasks[t].deliveries)]
    /\ UNCHANGED << messages, conversations, sqlite_sequence, subscriptions, now, calls, handled, api, listener >>

\* ------------------------------------------------------ backend/security.py
\* the allow-list of the configuration object (hostnames and IP addresses)
PRIVATE_API_WHITELIST == { "10.0.0.5", "::1", "hooks.lan" }

\* callback URLs a client can ask for
CallbackUrls ==
    { "http://10.0.0.5/hook", "http://[0:0:0:0:0:0:0:1]/hook", "http://10.0.0.6/hook",
      "http://evil.example/hook" }

\* security.py:45-46: urlparse(url).hostname
UrlHostname(url) ==
    CASE url = "http://10.0.0.5/hook" -> "10.0.0.5"
      [] url = "http://[0:0:0:0:0:0:0:1]/hook" -> "0:0:0:0:0:0:0:1"
      [] url = "http://hooks.lan/hook" -> "hooks.lan"
      [] url = "http://10.0.0.6/hook" -> "10.0.0.6"
      [] url = "http://evil.example/hook" -> "evil.example"
      [] OTHER -> None

\* ipaddress.ip_address(text): the address in its canonical form, or ValueError
IpAddress(text) ==
    CASE text = "10.0.0.5" -> "10.0.0.5"
      [] text = "10.0.0.6" -> "10.0.0.6"
      [] text = "::1" -> "::1"
      [] text = "0:0:0:0:0:0:0:1" -> "::1"
      [] OTHER -> "ValueError"

\* mutation of is_private_network_url: every URL passes
is_private_network_url_any(whitelist, url) == TRUE

\* security.py:40-77
is_private_network_url(whitelist, url) ==
    LET hostname == UrlHostname(url) IN
    IF hostname = None THEN FALSE
    ELSE IF hostname \in whitelist THEN TRUE
    ELSE IF IpAddress(hostname) = "ValueError" THEN FALSE
    ELSE \E whitelisted \in whitelist :
            /\ IpAddress(whitelisted) # "ValueError"
            /\ IpAddress(whitelisted) = IpAddress(hostname)

\* ------------------------------------------- challenge (backend/webhooks.py)
\* secrets.token_urlsafe(32): the token a call draws
Tokens == { "tok1" }

\* a JSON body as response.json() sees it: not JSON at all, or a decoded value
Body(json, obj) == [json |-> json, obj |-> obj]

\* what the candidate endpoint can do with the challenge POST carrying token
ChallengeReplies(token) ==
    { [kind |-> "exception"], [kind |-> "timeout"] }
    \cup { [kind |-> "response", status_code |-> 500,
            body |-> Body("object", [k \in { "challenge" } |-> token])] }
    \cup { [kind |-> "response", status_code |-> 200, body |-> body] :
             body \in { Body("invalid", EmptyDict), Body("array", EmptyDict),
                        Body("object", EmptyDict),
                        Body("object", [k \in { "challenge" } |-> token]),
                        Body("object", [k \in { "challenge" } |-> "tok-other"]) } }

\* webhooks.py:36-46: the request the challenge sends
ChallengeRequest(callback_url, challenge) ==
    [method |-> "POST", url |-> callback_url,
     json |-> [event |-> "challenge", challenge |-> challenge]]

\* mutation of EchoesChallenge: any JSON object passes
EchoesAnything(data, challenge) == TRUE

\* webhooks.py:50
EchoesChallenge(data, challenge) == Get(data, "challenge", None) = challenge

\* webhooks.py:26-56: the value send_webhook_challenge returns once the POST of
\* line 42 has ended with reply; response.json() raises on a body that is not
\* JSON and data.get raises on a body that is not an object, both caught at 53
send_webhook_challenge(challenge, reply) ==
    IF reply.kind # "response" THEN None
    ELSE IF reply.status_code # 200 THEN None
    ELSE IF reply.body.json # "object" THEN None
    ELSE IF EchoesChallenge(reply.body.obj, challenge) THEN challenge
    ELSE None

\* ------------------------------------------ subscription store, write side
\* mutation of add_webhook_subscription: the row of the URL is replaced
add_or_replace_webhook_subscription(subs, callback_url, secret) ==
    LET kept == SelectSeq(subs, LAMBDA row : row.callback_url # callback_url)
    IN  [raised |-> FALSE,
         subs |-> Append(kept, Subscription(Len(subs) + 1, callback_url, secret, TRUE)),
         sub_id |-> Len(subs) + 1]

\* db.add_webhook_subscription(callback_url, secret): callback_url is a
\* UNIQUE column, a second row for it raises
add_webhook_subscription(subs, callback_url, secret) ==
    IF \E i \in DOMAIN subs : subs[i].callback_url = callback_url
    THEN [raised |-> TRUE, subs |-> subs, sub_id |-> 0]
    ELSE LET ids == { subs[i].id : i \in DOMAIN subs }
             sub_id == IF ids = {} THEN 1 ELSE (CHOOSE m \in ids : \A o \in ids : o <= m) + 1
         IN  [raised |-> FALSE,
              subs |-> Append(subs, Subscription(sub_id, callback_url, secret, TRUE)),
              sub_id |-> sub_id]

\* db.remove_webhook_subscription(callback_url): whether a row was deleted
remove_webhook_subscription(subs, callback_url) ==
    [success |-> \E i \in DOMAIN subs : subs[i].callback_url = callback_url,
     subs |-> SelectSeq(subs, LAMBDA row : row.callback_url # callback_url)]

\* ------------------------------------------------ backend/routers/webhooks.py
\* the secret of a subscribe request (None: left out) and the one line 51 draws
RequestSecrets == { None, "s1" }

GeneratedSecrets == { "gen1" }

HiddenSecret == "***hidden***"

\* an HTTP answer of the router
HttpAnswer(status_code, body) == [status_code |-> status_code, body |-> body]

\* mutation of ChallengeFailed: the result of the challenge is not looked at
ChallengeFailedNever(challenge_result) == FALSE

\* routers/webhooks.py:57: if not challenge_result
ChallengeFailed(challenge_result) == ~TruthyStr(challenge_result)

\* routers/webhooks.py:28-80. sent: the HTTP requests made during the call
subscribe_webhook(subs, callback_url, request_secret, generated, challenge, reply) ==
    IF ~is_private_network_url(PRIVATE_API_WHITELIST, callback_url)
    THEN [subs |-> subs, sent |-> <<>>, challenge_result |-> None,
          answer |-> HttpAnswer(403, [detail |-> "Webhook URL must be on a whitelisted IP address"])]
    ELSE
    LET secret == IF TruthyStr(request_secret) THEN request_secret ELSE generated
        sent == << ChallengeRequest(callback_url, challenge) >>
        challenge_result == send_webhook_challenge(challenge, reply)
    IN
    IF ChallengeFailed(challenge_result)
    THEN [subs |-> subs, sent |-> sent, challenge_result |-> challenge_result,
          answer |-> HttpAnswer(400, [detail |-> "Webhook challenge failed"])]
    ELSE
    LET added == add_webhook_subscription(subs, callback_url, secret) IN
    IF added.raised
    THEN [subs |-> added.subs, sent |-> sent, challenge_result |-> challenge_result,
          answer |-> HttpAnswer(500, [detail |-> "Failed to subscribe webhook"])]
    ELSE [subs |-> added.subs, sent |-> sent, challenge_result |-> challenge_result,
          answer |-> HttpAnswer(200, [status |-> "subscribed",
                                      subscription_id |-> added.sub_id,
                                      callback_url |-> callback_url,
                                      secret |-> secret])]

\* mutation of NotFound: the result of the store is not looked at
NotFoundNever(success) == FALSE

\* routers/webhooks.py:99: if not success
NotFound(success) == ~success

\* routers/webhooks.py:83-114
unsubscribe_webhook(subs, callback_url) ==
    LET removed == remove_webhook_subscription(subs, callback_url) IN
    IF NotFound(removed.success)
    THEN [subs |-> removed.subs,
          answer |-> HttpAnswer(404, [detail |-> "Webhook subscription not found"])]
    ELSE [subs |-> removed.subs,
          answer |-> HttpAnswer(200, [status |-> "unsubscribed",
                                      callback_url |-> callback_url])]

\* mutation of HideSecret: the row is returned as stored
ShowSecret(sub) == sub

\* routers/webhooks.py:132-133: sub['secret'] = '***hidden***'
HideSecret(sub) == [sub EXCEPT !.secret = HiddenSecret]

\* routers/webhooks.py:117-142
list_webhook_subscribers(subs, include_disabled) ==
    LET subscriptions_ == get_webhook_subscriptions(subs, ~include_disabled)
        hidden == [i \in DOMAIN subscriptions_ |-> HideSecret(subscriptions_[i])]
    IN  HttpAnswer(200, [subscribers |-> hidden, count |-> Len(hidden)])

\* no call of the router yet
NoApiCall ==
    [n |-> 0, op |-> "none", callback_url |-> None, secret |-> None, challenge |-> None,
     reply |-> [kind |-> "none"], sent |-> <<>>, challenge_result |-> None,
     include_disabled |-> FALSE, store_raised |-> FALSE,
     answer |-> HttpAnswer(0, EmptyDict)]

\* the callback URLs that have a row
SubscribedUrls(subs) == { subs[i].callback_url : i \in DOMAIN subs }

\* every reply an endpoint can give to a challenge
AllChallengeReplies == UNION { ChallengeReplies(challenge) : challenge \in Tokens }

\* POST /api/webhooks/subscribe, for one of urls with one of request_secrets,
\* the endpoint giving one of replies
SubscribeCall(urls, request_secrets, replies) ==
    /\ api.n < MaxApiCalls
    /\ \E callback_url \in urls, request_secret \in request_secrets,
          generated \in GeneratedSecrets, challenge \in Tokens :
         \E reply \in ChallengeReplies(challenge) \cap replies :
            LET r == subscribe_webhook(subscriptions, callback_url, request_secret,
                                       generated, challenge, reply)
            IN  /\ subscriptions' = r.subs
                /\ api' = [n |-> api.n + 1, op |-> "subscribe",
                           callback_url |-> callback_url, secret |-> request_secret,
                           challenge |-> challenge, reply |-> reply, sent |-> r.sent,
                           challenge_result |-> r.challenge_result,
                           include_disabled |-> FALSE, answer |-> r.answer]
    /\ UNCHANGED << messages, conversations, sqlite_sequence, tasks, now, calls, handled,
                    listener >>

Subscribe == SubscribeCall(CallbackUrls, RequestSecrets, AllChallengeReplies)

\* POST /api/webhooks/unsubscribe, for one of urls
UnsubscribeCall(urls) ==
    /\ api.n < MaxApiCalls
    /\ \E callback_url \in urls :
         LET r == unsubscribe_webhook(subscriptions, callback_url)
         IN  /\ subscriptions' = r.subs
             /\ api' = [NoApiCall EXCEPT !.n = api.n + 1, !.op = "unsubscribe",
                                         !.callback_url = callback_url,
                                         !.answer = r.answer]
    /\ UNCHANGED << messages, conversations, sqlite_sequence, tasks, now, calls, handled,
                    listener >>

Unsubscribe == UnsubscribeCall(CallbackUrls \cup SubscribedUrls(subscriptions))

\* GET /api/webhooks/subscribers
ListSubscribers ==
    /\ api.n < MaxApiCalls
    /\ \E include_disabled \in BOOLEAN :
         api' = [NoApiCall EXCEPT !.n = api.n + 1, !.op = "list",
                                  !.include_disabled = include_disabled,
                                  !.answer = list_webhook_subscribers(subscriptions,
                                                                      include_disabled)]
    /\ UNCHANGED << messages, conversations, sqlite_sequence, subscriptions, tasks, now,
                    calls, handled, listener >>

\* routers/webhooks.py:160-164: the payload of a test delivery
TestPayload ==
    [event |-> "test", message |-> "This is a test webhook from SignalController",
     timestamp |-> CurrentTimestamp]

\* one attempt of an awaited delivery is answered; when the answer leads to a
\* retry, the sleep and the next POST follow (webhooks.py:90-104)
DeliverStep(s, response) ==
    IF Terminal(s.d)
    THEN s
    ELSE LET r == HandleResponse(s.d, s.subs, response, {})
         IN  [d |-> IF r.d.status = "sleeping" THEN Recurse(r.d) ELSE r.d, subs |-> r.subs]

\* await notify_webhook_subscriber(db, callback_url, secret, message_data):
\* the call and its retries, to their end, the endpoint answering attempt k
\* with responses[k].  Result: [d, subs]
AwaitDelivery(subs, callback_url, secret, message_data, responses) ==
    LET s0 == [d |-> SendPost(NewDelivery(callback_url, secret, message_data)), subs |-> subs]
        s1 == DeliverStep(s0, responses[1])
        s2 == DeliverStep(s1, responses[2])
        s3 == DeliverStep(s2, responses[3])
    IN  DeliverStep(s3, responses[4])

\* routers/webhooks.py:146-178 test_webhook.  Result: [subs, sent, answer]
test_webhook(subs, callback_url, request_secret, responses) ==
    LET secret == IF TruthyStr(request_secret) THEN request_secret ELSE "test_secret"
        delivered == AwaitDelivery(subs, callback_url, secret, TestPayload, responses)
    IN  [subs |-> delivered.subs,
         sent |-> delivered.d.posts,
         answer |-> HttpAnswer(200, [status |-> "success", callback_url |-> callback_url])]

\* POST /api/webhooks/test, the request's callback_url drawn from urls and its
\* secret from request_secrets
TestWebhookCall(urls, request_secrets) ==
    /\ api.n < MaxApiCalls
    /\ \E callback_url \in urls : \E request_secret \in request_secrets :
       \E responses \in [1..(MaxRetries + 1) -> Responses] :
         LET r == test_webhook(subscriptions, callback_url, request_secret, responses)
         IN  /\ subscriptions' = r.subs
             /\ api' = [NoApiCall EXCEPT !.n = api.n + 1, !.op = "test",
                                         !.callback_url = callback_url,
                                         !.secret = request_secret,
                                         !.sent = r.sent,
                                         !.answer = r.answer]
    /\ UNCHANGED << messages, conversations, sqlite_sequence, tasks, now, calls, handled,
                    listener >>

\* ------------------------------------------------ backend/routers/messages.py
\* config.SIGNAL_PHONE_NUMBER
SIGNAL_PHONE_NUMBER == "+0"

\* request_data.to: a phone number and a group id (base64 with = padding)
Recipients == { "+2", "Z3JvdXAx=" }

\* messages.py:50: '=' in request_data.to or len(request_data.to) > 20
IsGroupRecipient(to) == to = "Z3JvdXAx="

\* how the call of signal-cli ends (signal_client.py:54-70): a result, an
\* HTTP or connection error (raise_for_status), a JSON-RPC error
UpstreamOutcomes == { "result", "http_error", "rpc_error" }

\* signal_client.py:20-70 send_message
signal_client_send_message(upstream) ==
    IF upstream = "result"
    THEN [raised |-> FALSE, result |-> [timestamp |-> CurrentTimestamp]]
    ELSE [raised |-> TRUE, result |-> EmptyDict]

\* db.py:109-119: the parameters of store_message
StoreMessageParameters ==
    { "sender_number", "sender_name", "timestamp", "message_body", "attachments",
      "raw_data", "group_id", "group_name" }

\* messages.py:63-73: the keyword arguments of the call
SentMessageKeywords == StoreMessageParameters \cup { "recipient_number" }

\* faults the SQLite layer can raise inside one send call
SendFaults == { "none", "get_conversations", "store_message" }

\* messages.py:54-60: the name of the group, from its conversation
GroupNameOf(convs, group_id) ==
    IF \E r \in convs : r.group_id = group_id
    THEN (CHOOSE r \in convs : r.group_id = group_id).contact_name
    ELSE None

\* messages.py:46-75, the inner try block.  Result: [raised, db, message_id]
StoreSentMessage(db, to, message, fault) ==
    LET is_group == IsGroupRecipient(to)
        group_id == IF is_group THEN to ELSE None
    IN
    IF is_group /\ fault = "get_conversations"
    THEN [raised |-> TRUE, db |-> db, message_id |-> None]
    ELSE IF ~(SentMessageKeywords \subseteq StoreMessageParameters)
    THEN \* TypeError: store_message() got an unexpected keyword argument
         [raised |-> TRUE, db |-> db, message_id |-> None]
    ELSE LET stored == store_message(db, SIGNAL_PHONE_NUMBER, "Me", CurrentTimestamp,
                                     message, JsonNull, JsonNull, group_id,
                                     IF is_group
                                     THEN GroupNameOf(db.conversations, group_id)
                                     ELSE None,
                                     fault)
         IN  [raised |-> stored.raised, db |-> stored.db,
              message_id |-> IF stored.raised THEN None ELSE stored.message_id]

\* mutation of StorageFailureSwallowed: the inner except re-raises
StorageFailureRaised == FALSE

\* messages.py:76-78: except Exception as db_error, logged and not re-raised
StorageFailureSwallowed == TRUE

\* messages.py:27-90 send_message.  Result: [db, answer, store_raised]
send_message(db, to, message, upstream, fault) ==
    LET result == signal_client_send_message(upstream)
        failed == HttpAnswer(500, [detail |-> "Failed to send message"])
    IN
    IF result.raised
    THEN [db |-> db, answer |-> failed, store_raised |-> FALSE]
    ELSE LET stored == StoreSentMessage(db, to, message, fault) IN
         IF stored.raised /\ ~StorageFailureSwallowed
         THEN [db |-> stored.db, answer |-> failed, store_raised |-> TRUE]
         ELSE [db |-> stored.db,
               answer |-> HttpAnswer(200, [success |-> TRUE,
                                           timestamp |-> CurrentTimestamp,
                                           recipient |-> to,
                                           message_text |-> message,
                                           message_id |-> stored.message_id]),
               store_raised |-> stored.raised]

\* POST /api/send
SendMessage ==
    /\ api.n < MaxApiCalls
    /\ \E to \in Recipients : \E upstream \in UpstreamOutcomes : \E fault \in SendFaults :
         LET r == send_message([messages |-> messages, conversations |-> conversations,
                                sqlite_sequence |-> sqlite_sequence],
                               to, "hello", upstream, fault)
         IN  /\ messages' = r.db.messages
             /\ conversations' = r.db.conversations
             /\ sqlite_sequence' = r.db.sqlite_sequence
             /\ api' = [NoApiCall EXCEPT !.n = api.n + 1, !.op = "send",
                                         !.reply = [kind |-> upstream],
                                         !.store_raised = r.store_raised,
                                         !.answer = r.answer]
    /\ UNCHANGED << subscriptions, tasks, now, calls, handled, listener >>

\* ------------------------------ listener (backend/signal_processor.py:14-44)
\* signal_processor.py:44: await asyncio.sleep(5), in seconds
ReconnectDelay == 5

\* events the upstream sends in the stream: an individual message, an event
\* without dataMessage, a group message, a JSON value that is not an object
ListenerEvents ==
    FanoutEvents
    \cup { [json |-> "object",
            obj |-> [envelope |->
                       [sourceNumber |-> "+1", sourceName |-> "Al", timestamp |-> 1000,
                        dataMessage |->
                          [message |-> "hi",
                           groupInfo |-> [groupId |-> "g1", groupName |-> "Team"]]]]],
           [json |-> "array", obj |-> EmptyDict] }

\* text that json.loads rejects
NotJson == [invalid_text |-> "{oops"]

\* a line of the stream: the field name before the colon and the text after it
Line(field, text) == [field |-> field, text |-> text]

\* lines the upstream can send: events, a data line that is not JSON, an
\* event-type line, a keep-alive (empty) line, an id line (whose text is
\* valid JSON)
Lines ==
    { Line("data", JsonDumps(data)) : data \in ListenerEvents }
    \cup { Line("data", NotJson), Line("event", NotJson), Line("", NotJson),
           Line("id", JsonDumps([json |-> "array", obj |-> EmptyDict])) }

\* no line read yet
NoLine == Line("none", NotJson)

\* mutation of StartsWithData: every line is taken for a data line
StartsWithAnything(line) == TRUE

\* signal_processor.py:31: line.startswith('data:')
StartsWithData(line) == line.field = "data"

\* signal_processor.py:36 json.loads: the decoded value, or JSONDecodeError
JsonLoads(text) ==
    IF "json_text_of" \in DOMAIN text
    THEN [raised |-> FALSE, value |-> text.json_text_of]
    ELSE [raised |-> TRUE, value |-> JsonNull]

\* mutation of DecodeErrorCaught: the error leaves the stream loop
DecodeErrorCaughtNever == FALSE

\* signal_processor.py:38: except json.JSONDecodeError, inside the stream loop
DecodeErrorCaught == TRUE

\* mutation of Caught: the handler lets its failures out
CaughtNever(outcome) == FALSE

\* signal_processor.py:118: except Exception around the whole handler body
Caught(outcome) == TRUE

\* mutation of LoopCondition: the listener gives up after repeated failures
LoopConditionBounded(l) == l.failures < MaxRetries

\* signal_processor.py:24: while True
LoopCondition(l) == TRUE

\* signal_processor.py:41-44: the sleep is in the except branch, which a
\* stream that ends without an exception does not enter
SleepsAfter(ended) == ended # "closed"

\* the listener before its first connection attempt.  line: the last line
\* read; attempts: connections
\* tried so far; connection: the attempt that opened the present stream;
\* reads, skipped: lines read in all, lines skipped on the present stream;
\* failures: attempts in a row ended by an exception; ended, waited: how the
\* last connection ended and the seconds slept since; last: what became of
\* the last line read
ListenerStart ==
    [pc |-> "connecting", attempts |-> 0, connection |-> 0, reads |-> 0, failures |-> 0,
     ended |-> "none", waited |-> 0, last |-> "none", skipped |-> 0, line |-> NoLine]

\* the connection (if any) has ended in the way `ended`: back to the top of
\* the loop of line 24, through the except branch when an exception ended it
EndConnection(l, ended) ==
    LET failed == [l EXCEPT !.ended = ended, !.waited = 0,
                            !.failures = IF ended = "closed" THEN 0 ELSE l.failures + 1]
    IN  IF SleepsAfter(ended)
        THEN [failed EXCEPT !.pc = "sleeping"]
        ELSE [failed EXCEPT !.pc = IF LoopCondition(failed) THEN "connecting"
                                   ELSE "terminated"]

\* signal_processor.py:26-28: the GET of /api/v1/events is attempted
Connect ==
    /\ listener.pc = "connecting"
    /\ listener.attempts < MaxAttempts
    /\ \E result \in { "connected", "network error", "unreachable" } :
         LET l == [listener EXCEPT !.attempts = listener.attempts + 1, !.last = "none"]
         IN  listener' = IF result = "connected"
                         THEN [l EXCEPT !.pc = "streaming", !.connection = l.attempts,
                                        !.failures = 0, !.skipped = 0]
                         ELSE EndConnection(l, result)
    /\ UNCHANGED << messages, conversations, sqlite_sequence, subscriptions, tasks, now,
                    calls, handled, api >>

\* signal_processor.py:30-39: one line of the stream is read and handled
ReadLine ==
    /\ listener.pc = "streaming"
    /\ listener.reads < MaxLines
    /\ \E line \in Lines, fault \in StoreFaults :
         LET l == [listener EXCEPT !.reads = listener.reads + 1, !.line = line]
             loaded == JsonLoads(line.text)
             r == process_incoming_message(
                      [messages |-> messages, conversations |-> conversations,
                       sqlite_sequence |-> sqlite_sequence], tasks, loaded.value, fault)
         IN  IF ~StartsWithData(line)
             THEN /\ fault = "none"
                  /\ listener' = [l EXCEPT !.last = "ignored"]
                  /\ UNCHANGED << messages, conversations, sqlite_sequence, tasks, calls,
                                  handled >>
             ELSE IF loaded.raised
             THEN /\ fault = "none"
                  /\ listener' =
                         LET skipped == [l EXCEPT !.last = "not json",
                                                  !.skipped = l.skipped + 1]
                         IN  IF DecodeErrorCaught THEN skipped
                             ELSE EndConnection(skipped, "error")
                  /\ UNCHANGED << messages, conversations, sqlite_sequence, tasks, calls,
                                  handled >>
             ELSE /\ fault \in StoreFaultsIn(loaded.value)
                  /\ messages' = r.db.messages
                  /\ conversations' = r.db.conversations
                  /\ sqlite_sequence' = r.db.sqlite_sequence
                  /\ tasks' = r.tasks
                  /\ handled' = [data |-> loaded.value, fault |-> fault,
                                 outcome |-> r.outcome, effects |-> r.effects]
                  /\ calls' = calls + 1
                  /\ listener' = IF r.outcome = "dropped" /\ ~Caught(r.outcome)
                                 THEN EndConnection([l EXCEPT !.last = "forwarded"], "error")
                                 ELSE [l EXCEPT !.last = "forwarded"]
    /\ UNCHANGED << subscriptions, now, api >>

\* the stream ends: the server closes it (aiter_lines is exhausted) or the
\* read raises (network error)
StreamEnds ==
    /\ listener.pc = "streaming"
    /\ \E ended \in { "closed", "network error" } :
         listener' = EndConnection([listener EXCEPT !.last = "none"], ended)
    /\ UNCHANGED << messages, conversations, sqlite_sequence, subscriptions, tasks, now,
                    calls, handled, api >>

\* signal_processor.py:44: the sleep of the except branch ends
EndSleep ==
    /\ listener.pc = "sleeping"
    /\ listener' = [listener EXCEPT !.waited = listener.waited + ReconnectDelay,
                                    !.pc = IF LoopCondition(listener) THEN "connecting"
                                           ELSE "terminated"]
    /\ UNCHANGED << messages, conversations, sqlite_sequence, subscriptions, tasks, now,
                    calls, handled, api >>

\* ------------------------------------------------------------ specifications
NoCall ==
    [data |-> [json |-> "none", obj |-> EmptyDict], fault |-> "none", outcome |-> "none",
     effects |-> <<>>]

\* a freshly created database file, no task, no call yet
InitIngest ==
    /\ messages = <<>>
    /\ conversations = {}
    /\ sqlite_sequence = 0
    /\ subscriptions = <<>>
    /\ tasks = <<>>
    /\ now = 1
    /\ calls = 0
    /\ handled = NoCall
    /\ api = NoApiCall
    /\ listener = ListenerStart

Ingest == ProcessIncomingMessage(Events, MaxEvents)

NextIngest == Ingest \/ Tick

\* ingestion alone: events of every shape, the fan-out tasks left unscheduled
SpecIngest == InitIngest /\ [][NextIngest]_vars

\* no message yet; the subscription table as a running system can hold it
Init ==
    /\ messages = <<>>
    /\ conversations = {}
    /\ sqlite_sequence = 0
    /\ subscriptions \in InitialSubscriptions
    /\ tasks = <<>>
    /\ now = 1
    /\ calls = 0
    /\ handled = NoCall
    /\ api = NoApiCall
    /\ listener = ListenerStart

Receive == ProcessIncomingMessage(FanoutEvents, MaxFanouts)

RunNotifyAll == \E t \in DOMAIN tasks : NotifyAll(t, FALSE)

RunStart == \E t \in DOMAIN tasks : \E i \in DOMAIN tasks[t].deliveries : StartDelivery(t, i)

RunRespond ==
    \E t \in DOMAIN tasks : \E i \in DOMAIN tasks[t].deliveries : Respond(t, i, FALSE)

RunWake == \E t \in DOMAIN tasks : \E i \in DOMAIN tasks[t].deliveries : Wake(t, i)

RunGatherReturns == \E t \in DOMAIN tasks : GatherReturns(t)

Next == Receive \/ RunNotifyAll \/ RunStart \/ RunRespond \/ RunWake \/ RunGatherReturns

\* ingestion of a message and its fan-out, the subscription store answering
\* every call
Spec == Init /\ [][Next]_vars

ReceiveFaulty == ProcessIncomingMessage(FanoutEvents, MaxFaultyFanouts)

RunNotifyAllFaulty == \E t \in DOMAIN tasks : NotifyAll(t, TRUE)

RunRespondFaulty ==
    \E t \in DOMAIN tasks : \E i \in DOMAIN tasks[t].deliveries : Respond(t, i, TRUE)

NextFaulty ==
    \/ ReceiveFaulty
    \/ RunNotifyAllFaulty
    \/ RunStart
    \/ RunRespondFaulty
    \/ RunWake
    \/ RunGatherReturns

\* the same, the subscription store free to raise in any call
SpecFaulty == Init /\ [][NextFaulty]_vars

NextSubscribe == Subscribe \/ Unsubscribe \/ ListSubscribers

\* the webhook router alone, on the subscription table a running system can hold
SpecSubscribe == Init /\ [][NextSubscribe]_vars

NextListen == Connect \/ ReadLine \/ StreamEnds \/ EndSleep

\* the listener and the handler it feeds, the fan-out tasks left unscheduled
SpecListen == InitIngest /\ [][NextListen]_vars

\* the same, the event loop ending every sleep it started
SpecListenFair == SpecListen /\ WF_vars(EndSleep)


\* the events of the conversation specification: individual messages of "+1"
\* with and without an origin timestamp and one older than the clock, a
\* message of "+1" in group "g1", and an individual message whose sender
\* identifier is the text "g1"
PeerEvents ==
    { [json |-> "object",
       obj |-> [envelope |-> [sourceNumber |-> "+1", sourceName |-> "Al", timestamp |-> 1000,
                              dataMessage |-> [message |-> "hi"]]]],
      [json |-> "object",
       obj |-> [envelope |-> [sourceNumber |-> "+1", sourceName |-> "Al",
                              dataMessage |-> [message |-> "hi"]]]],
      [json |-> "object",
       obj |-> [envelope |-> [sourceNumber |-> "+1", sourceName |-> "Al", timestamp |-> 1000,
                              dataMessage |->
                                [message |-> "hi",
                                 groupInfo |-> [groupId |-> "g1", groupName |-> "Team"]]]]],
      [json |-> "object",
       obj |-> [envelope |-> [sourceNumber |-> "g1", sourceName |-> "Gil", timestamp |-> 1000,
                              dataMessage |-> [message |-> "hi"]]]] }

ReceivePeer == ProcessIncomingMessage(PeerEvents, MaxPeerEvents)

NextPeers == ReceivePeer \/ Tick

\* ingestion of messages of two peers whose identifiers can coincide, the
\* fan-out tasks left unscheduled
SpecPeers == InitIngest /\ [][NextPeers]_vars

\* the subscriber of the system specification and the secrets it subscribes with
SystemUrl == "http://10.0.0.5/hook"

SystemSecrets == { "s2" }

\* the subscriber's endpoint answers a challenge with the token, or not at all
SystemReplies ==
    { reply \in AllChallengeReplies :
        \/ reply.kind = "timeout"
        \/ reply.kind = "response" /\ send_webhook_challenge("tok1", reply) = "tok1" }

\* one subscriber, subscribed with secret "s1" and enabled; no message yet
InitSystem ==
    /\ messages = <<>>
    /\ conversations = {}
    /\ sqlite_sequence = 0
    /\ subscriptions = << Subscription(1, SystemUrl, "s1", TRUE) >>
    /\ tasks = <<>>
    /\ now = 1
    /\ calls = 0
    /\ handled = NoCall
    /\ api = NoApiCall
    /\ listener = ListenerStart

\* the events of the system specification: individual messages
SystemEvents ==
    { [json |-> "object",
       obj |-> [envelope |-> [sourceNumber |-> "+1", sourceName |-> "Al", timestamp |-> 1000,
                              dataMessage |-> [message |-> "hi"]]]] }

ReceiveSystem == ProcessIncomingMessage(SystemEvents, MaxSystemEvents)

SubscribeSystem == SubscribeCall({ SystemUrl }, SystemSecrets, SystemReplies)

UnsubscribeSystem == UnsubscribeCall({ SystemUrl })

NextSystem ==
    \/ ReceiveSystem
    \/ RunNotifyAll
    \/ RunStart
    \/ RunRespond
    \/ RunWake
    \/ RunGatherReturns

\* the listener and the fan-out tasks it creates, side by side in the one
\* event loop of the process
SpecSystem == InitSystem /\ [][NextSystem]_vars

\* the events of the delivery specification: a text message and a message
\* that is an attachment alone ("message": null in the JSON of signal-cli)
DeliverEvents ==
    { [json |-> "object",
       obj |-> [envelope |-> [sourceNumber |-> "+1", sourceName |-> "Al", timestamp |-> 1000,
                              dataMessage |-> dm]]] :
        dm \in { [message |-> "hi"],
                 [message |-> None,
                  attachments |-> << [contentType |-> "image/png", id |-> "a1"] >>] } }

ReceiveDeliver == ProcessIncomingMessage(DeliverEvents, MaxDeliverEvents)

NextDeliver ==
    \/ ReceiveDeliver
    \/ RunNotifyAll
    \/ RunStart
    \/ RunRespond
    \/ RunWake
    \/ RunGatherReturns

\* a step of fan-out task t or of one of its deliveries
TaskStep(t) ==
    /\ t \in DOMAIN tasks
    /\ \/ NotifyAll(t, FALSE)
       \/ \E i \in DOMAIN tasks[t].deliveries :
             StartDelivery(t, i) \/ Respond(t, i, FALSE) \/ Wake(t, i)
       \/ GatherReturns(t)

\* the event loop runs every task that is ready: a created task is started,
\* a POST is answered or times out (webhooks.py:82), a sleep ends
SpecDeliver ==
    /\ InitSystem
    /\ [][NextDeliver]_vars
    /\ \A t \in 1..MaxDeliverEvents : WF_vars(TaskStep(t))

NextSend == SendMessage \/ ReceiveSystem

\* the send endpoint and the listener, sharing the message store
SpecSend == InitSystem /\ [][NextSend]_vars

\* the database file a restarted process finds: one message stored by an
\* earlier run (whose fan-out is over), its conversation, and the subscriber
StoredEarlier ==
    process_incoming_message([messages |-> <<>>, conversations |-> {}, sqlite_sequence |-> 0],
                             <<>>, CHOOSE data \in SystemEvents : TRUE, "none").db

InitResubscribe ==
    /\ now = 1
    /\ messages = StoredEarlier.messages
    /\ conversations = StoredEarlier.conversations
    /\ sqlite_sequence = StoredEarlier.sqlite_sequence
    /\ subscriptions = << Subscription(1, SystemUrl, "s1", TRUE) >>
    /\ tasks = <<>>
    /\ calls = 0
    /\ handled = NoCall
    /\ api = NoApiCall
    /\ listener = ListenerStart

ReceiveResubscribe == ProcessIncomingMessage(SystemEvents, MaxResubscribeEvents)

NextResubscribe ==
    \/ ReceiveResubscribe
    \/ RunNotifyAll
    \/ RunStart
    \/ RunRespond
    \/ RunWake
    \/ RunGatherReturns
    \/ SubscribeSystem
    \/ UnsubscribeSystem

\* ingestion, fan-out and the webhook router side by side: the subscriber
\* unsubscribes and subscribes again while a message is delivered to it
SpecResubscribe == InitResubscribe /\ [][NextResubscribe]_vars

\* the callback URLs of the outbound specification: the subscriber's, whose
\* host is in the allow-list, and one whose host is not
OutboundUrls == { SystemUrl, "http://evil.example/hook" }

SubscribeOutbound == SubscribeCall(OutboundUrls, SystemSecrets, SystemReplies)

TestWebhook == TestWebhookCall(OutboundUrls, RequestSecrets)

NextOutbound ==
    \/ SubscribeOutbound
    \/ TestWebhook
    \/ ReceiveResubscribe
    \/ RunNotifyAll
    \/ RunStart
    \/ RunRespond
    \/ RunWake
    \/ RunGatherReturns

\* everything that sends HTTP requests to callback URLs: the challenge of a
\* subscribe call, the deliveries of a fan-out, a test delivery
SpecOutbound == InitSystem /\ [][NextOutbound]_vars

\* ------------------------------------------------------------------ claims
\* the envelope of a decoded event ({} when it has none)
EnvelopeOf(data) == Get(data.obj, "envelope", EmptyDict)

HasDataMessage(data) == data.json = "object" /\ "dataMessage" \in DOMAIN EnvelopeOf(data)

\* the group identifier an event carries, None when it carries none
GroupIdOf(data) ==
    Get(Get(Get(EnvelopeOf(data), "dataMessage", EmptyDict), "groupInfo", EmptyDict),
        "groupId", None)

\* the sender identifier an event carries
SenderOf(data) ==
    Get(EnvelopeOf(data), "sourceNumber", Get(EnvelopeOf(data), "source", "unknown"))

\* the peer of an event: the group for a group message, the sender otherwise
PeerOf(data) == IF GroupIdOf(data) # None THEN GroupIdOf(data) ELSE SenderOf(data)

\* message_count of the Conversation of a peer, 0 when there is no row
MessageCount(convs, peer) ==
    IF \E r \in convs : r.contact_number = peer
    THEN (CHOOSE r \in convs : r.contact_number = peer).message_count
    ELSE 0

\* this step is a call of process_incoming_message
IsCall == calls' = calls + 1

\* C1 (as claimed): a call for an event with a dataMessage that the store
\* serves without fault adds exactly one Message row and adds exactly 1 to the
\* message_count of the Conversation of the event's peer.
C1_OneRowAndCountPlusOne ==
    [][ (IsCall /\ HasDataMessage(handled'.data) /\ handled'.outcome = "dispatched")
        => /\ Len(messages') = Len(messages) + 1
           /\ MessageCount(conversations', PeerOf(handled'.data))
                = MessageCount(conversations, PeerOf(handled'.data)) + 1 ]_vars

\* C2: a call for an event whose envelope has no dataMessage key changes
\* neither the messages table nor the conversations table and creates no
\* fan-out task.
C2_NoDataMessageNoEffect ==
    [][ (IsCall /\ handled'.data.json = "object" /\ ~HasDataMessage(handled'.data))
        => /\ messages' = messages
           /\ conversations' = conversations
           /\ sqlite_sequence' = sqlite_sequence
           /\ tasks' = tasks
           /\ handled'.outcome = "skipped" ]_vars

\* C2 witness: an event without dataMessage was handled when the tables
\* already held a message, a conversation and a task
C2_Witness ==
    /\ calls > 1
    /\ handled.data.json = "object"
    /\ "envelope" \in DOMAIN handled.data.obj
    /\ ~HasDataMessage(handled.data)
    /\ Len(messages) = 1
    /\ conversations # {}
    /\ Len(tasks) = 1

\* the deliveries made so far, as (task, index) pairs
Deliveries == UNION { { <<t, i>> : i \in DOMAIN tasks[t].deliveries } : t \in DOMAIN tasks }

Delivery(p) == tasks[p[1]].deliveries[p[2]]

\* every response the delivery got so far is of this kind
AllResponses(d, kind) == \A k \in DOMAIN d.responses : d.responses[k] = kind

\* C3: a delivery whose every attempt fails with a network-level exception
\* makes MaxRetries + 1 = 4 POSTs, records one failure per attempt, and has
\* stopped once the fourth has failed.
C3_FourAttemptsOnException ==
    \A p \in Deliveries :
        LET d == Delivery(p) IN
        AllResponses(d, "exception")
        => /\ Len(d.posts) <= MaxRetries + 1
           /\ Len(d.recorded) = Len(d.responses)
           /\ \A k \in DOMAIN d.recorded : d.recorded[k] = "failure"
           /\ (d.status = "done" <=> Len(d.responses) = MaxRetries + 1)
           /\ (d.status = "done" => Len(d.posts) = MaxRetries + 1)

\* C3 witness: a delivery that has stopped after four failed attempts
C3_Witness ==
    \E p \in Deliveries :
        /\ Delivery(p).status = "done"
        /\ Delivery(p).responses = << "exception", "exception", "exception", "exception" >>

\* C4 (as claimed): an attempt with attempt count n < 3 answered by a status
\* other than 200 records a failure and is followed by the backoff wait and a
\* retry with n + 1, so an endpoint that always answers non-200 gets 4 POSTs.
C4_RetryOnNon200 ==
    \A p \in Deliveries :
        LET d == Delivery(p)
            n == Len(d.responses)
        IN  (n >= 1 /\ AllResponses(d, "500"))
            => /\ d.recorded = [k \in 1..n |-> "failure"]
               /\ (n <= MaxRetries => d.status # "done")
               /\ (d.status = "done" => Len(d.posts) = MaxRetries + 1)

\* C5 (as claimed): the waits before the 1st, 2nd and 3rd retry are 0 s, 2 s, 4 s.
C5_Waits_0_2_4 ==
    \A p \in Deliveries :
        \A k \in DOMAIN Delivery(p).waits : Delivery(p).waits[k] = << 0, 2, 4 >>[k]

\* C5 (amended): the waits before the 1st, 2nd and 3rd retry of a delivery
\* are 1 s, 2 s and 4 s (2^a seconds after failed attempt number a, a in 0..2),
\* and there is no fourth wait.
C5_Waits_1_2_4 ==
    \A p \in Deliveries :
        /\ Len(Delivery(p).waits) <= 3
        /\ \A k \in DOMAIN Delivery(p).waits : Delivery(p).waits[k] = << 1, 2, 4 >>[k]

\* C5 witness: a delivery that has waited three times
C5_Witness == \E p \in Deliveries : Len(Delivery(p).waits) = 3

\* C6: once an attempt of a delivery is answered with HTTP 200, a success is
\* recorded for it, the delivery has ended, and that attempt is its last POST.
C6_StopOn200 ==
    \A p \in Deliveries :
        LET d == Delivery(p) IN
        \A k \in DOMAIN d.responses :
            d.responses[k] = "200"
            => /\ k = Len(d.responses)
               /\ Len(d.posts) = k
               /\ d.status = "done"
               /\ Len(d.recorded) = k
               /\ d.recorded[k] = "success"

\* C6 witness: a delivery answered with 200 on a retry
C6_Witness ==
    \E p \in Deliveries :
        /\ Len(Delivery(p).responses) = 3
        /\ Delivery(p).responses[3] = "200"
        /\ Delivery(p).status = "done"

\* the event loop can run the next step of delivery p now
CanStep(p) ==
    ENABLED (StartDelivery(p[1], p[2]) \/ Respond(p[1], p[2], FALSE) \/ Wake(p[1], p[2]))

\* every outcome a delivery recorded is the one of its own response
OwnOutcomes(d) ==
    /\ Len(d.recorded) = Len(d.responses)
    /\ \A k \in DOMAIN d.recorded :
          d.recorded[k] = (IF d.responses[k] = "200" THEN "success" ELSE "failure")

\* C7: within one fan-out a delivery B that has not ended can always take its
\* next step, whatever state (failed, awaiting a timeout, sleeping before a
\* retry) the other deliveries are in; the outcomes B records are those of B's
\* own responses; and a step of one delivery changes no other delivery.
C7_IndependentDeliveries ==
    /\ [](\A p \in Deliveries :
            /\ (~Terminal(Delivery(p)) => CanStep(p))
            /\ OwnOutcomes(Delivery(p)))
    /\ [][ \A p \in Deliveries : \A q \in Deliveries :
              (p # q /\ tasks'[p[1]].deliveries[p[2]] # Delivery(p))
              => tasks'[q[1]].deliveries[q[2]] = Delivery(q) ]_vars

\* C7 witness: in one fan-out the first delivery has failed and sleeps before
\* its retry while the second has been answered 200 and has ended with a success
C7_Witness ==
    \E t \in DOMAIN tasks :
        /\ Len(tasks[t].deliveries) = 2
        /\ tasks[t].deliveries[1].status = "sleeping"
        /\ tasks[t].deliveries[1].responses = << "exception" >>
        /\ tasks[t].deliveries[2].status = "done"
        /\ tasks[t].deliveries[2].recorded = << "success" >>

\* C8 (as claimed): notify_all_webhooks never ends with an error, whatever the
\* store does while the subscriptions are fetched or an outcome is recorded.
C8_NotifyAllNeverRaises == \A t \in DOMAIN tasks : tasks[t].status # "raised"

\* no row of the subscription table is enabled
NoneEnabled == \A i \in DOMAIN subscriptions : ~subscriptions[i].enabled

\* C9: when no subscription is enabled, the run of notify_all_webhooks returns
\* at once: no delivery is created (so no POST is made) and no table changes.
C9_NoSubscriberNoEffect ==
    [][ \A t \in DOMAIN tasks :
          (NoneEnabled /\ tasks[t].status = "pending" /\ tasks'[t] # tasks[t])
          => /\ tasks'[t] = [tasks[t] EXCEPT !.status = "returned"]
             /\ tasks'[t].deliveries = <<>>
             /\ Len(tasks') = Len(tasks)
             /\ \A u \in DOMAIN tasks : u # t => tasks'[u] = tasks[u]
             /\ UNCHANGED << messages, conversations, sqlite_sequence, subscriptions >> ]_vars

\* C9 witness: notify_all_webhooks has returned without a delivery while the
\* table held a subscription, a disabled one
C9_Witness ==
    /\ Len(subscriptions) > 0
    /\ NoneEnabled
    /\ \E t \in DOMAIN tasks : tasks[t].status = "returned" /\ tasks[t].deliveries = <<>>

\* the deliveries of a list that go to this callback URL
DeliveriesTo(deliveries, url) == { k \in DOMAIN deliveries : deliveries[k].callback_url = url }

\* C10: the run of notify_all_webhooks creates one delivery, at attempt 0 and
\* with no POST made yet, for each row enabled at that moment, none for a
\* disabled row and none to any other URL; no delivery is added afterwards.
C10_OneDeliveryPerEnabled ==
    [][ \A t \in DOMAIN tasks :
          /\ (tasks[t].status = "pending" /\ tasks'[t] # tasks[t])
             => /\ \A i \in DOMAIN subscriptions :
                      Cardinality(DeliveriesTo(tasks'[t].deliveries,
                                               subscriptions[i].callback_url))
                        = (IF subscriptions[i].enabled THEN 1 ELSE 0)
                /\ \A k \in DOMAIN tasks'[t].deliveries :
                      /\ tasks'[t].deliveries[k].retry_count = 0
                      /\ tasks'[t].deliveries[k].posts = <<>>
                      /\ \E i \in DOMAIN subscriptions :
                            /\ subscriptions[i].enabled
                            /\ subscriptions[i].callback_url
                                 = tasks'[t].deliveries[k].callback_url
          /\ tasks[t].status # "pending"
             => Len(tasks'[t].deliveries) = Len(tasks[t].deliveries) ]_vars

\* C10 witness: a fan-out with a single delivery while the table holds two
\* rows, one enabled and one disabled
C10_Witness ==
    /\ Len(subscriptions) = 2
    /\ \E i \in DOMAIN subscriptions : ~subscriptions[i].enabled
    /\ \E t \in DOMAIN tasks :
          /\ Len(tasks[t].deliveries) = 1
          /\ tasks[t].deliveries[1].callback_url = subscriptions[1].callback_url

\* a step that is one call of the webhook router
IsApiCall == api'.n = api.n + 1

\* the endpoint answered the challenge request: HTTP 200 and a JSON object
\* whose challenge field is the token of the request
ChallengeAnswered(request, reply) ==
    /\ reply.kind = "response"
    /\ reply.status_code = 200
    /\ reply.body.json = "object"
    /\ "challenge" \in DOMAIN reply.body.obj
    /\ reply.body.obj["challenge"] = request.json.challenge

\* C11: the challenge reports success (returns the token) exactly when the
\* endpoint answers the challenge POST with HTTP 200 and a JSON body whose
\* challenge field equals the token sent; a wrong token, a non-200 status, a
\* timeout or any exception makes it report failure (None).
C11_ChallengeSucceedsIffEchoed ==
    (api.op = "subscribe" /\ api.sent # <<>>) =>
        /\ api.sent[1].json.challenge = api.challenge
        /\ (api.challenge_result = api.challenge) <=> ChallengeAnswered(api.sent[1], api.reply)
        /\ (api.challenge_result = None) <=> ~ChallengeAnswered(api.sent[1], api.reply)

\* a challenge was answered with the token and reported success
C11_Witness ==
    /\ api.op = "subscribe"
    /\ api.sent # <<>>
    /\ api.challenge_result = api.challenge
    /\ ChallengeAnswered(api.sent[1], api.reply)

\* C12: a subscribe call whose challenge fails is rejected and leaves the
\* subscription store unchanged, and a callback URL gets a row in the store
\* only in a subscribe call for that URL whose challenge succeeded.
C12_OnlyVerifiedSubscriptions ==
    [][ /\ (/\ IsApiCall
            /\ api'.op = "subscribe"
            /\ api'.sent # <<>>
            /\ ~ChallengeAnswered(api'.sent[1], api'.reply))
           => (subscriptions' = subscriptions /\ api'.answer.status_code = 400)
        /\ \A url \in SubscribedUrls(subscriptions') \ SubscribedUrls(subscriptions) :
              /\ IsApiCall
              /\ api'.op = "subscribe"
              /\ api'.callback_url = url
              /\ api'.sent # <<>>
              /\ ChallengeAnswered(api'.sent[1], api'.reply) ]_vars

\* a subscribe call was rejected because its challenge failed
C12_Witness ==
    /\ api.op = "subscribe"
    /\ api.sent # <<>>
    /\ ~ChallengeAnswered(api.sent[1], api.reply)
    /\ api.answer.status_code = 400

\* two host texts that name the same host: the same text, or the same IP address
SameHost(a, b) == a = b \/ (IpAddress(a) # "ValueError" /\ IpAddress(a) = IpAddress(b))

\* the host of the URL is in the configured allow-list
HostAllowListed(url) ==
    \E whitelisted \in PRIVATE_API_WHITELIST : SameHost(UrlHostname(url), whitelisted)

\* C13: a subscribe call whose callback URL host is not in the allow-list is
\* rejected without any HTTP request having been sent to that URL, and the
\* subscription store is left unchanged.
C13_NotAllowListedRejectedFirst ==
    [][ (IsApiCall /\ api'.op = "subscribe" /\ ~HostAllowListed(api'.callback_url))
        => /\ api'.sent = <<>>
           /\ subscriptions' = subscriptions
           /\ api'.answer.status_code = 403 ]_vars

\* a subscribe call for a host outside the allow-list was rejected
C13_Witness ==
    /\ api.op = "subscribe"
    /\ ~HostAllowListed(api.callback_url)
    /\ api.answer.status_code = 403
    /\ api.sent = <<>>

\* no two rows of the store have the same callback URL
UniqueCallbackUrls ==
    \A i, j \in DOMAIN subscriptions :
        subscriptions[i].callback_url = subscriptions[j].callback_url => i = j

\* a subscribe call for a URL that has a row is answered with an error status
\* and changes no row
DuplicateRejected ==
    (/\ IsApiCall
     /\ api'.op = "subscribe"
     /\ api'.callback_url \in SubscribedUrls(subscriptions))
    => (subscriptions' = subscriptions /\ api'.answer.status_code >= 400)

\* C14: after any sequence of subscribe and unsubscribe calls the store holds
\* at most one subscription per callback URL, and a subscribe call for a URL
\* that is already subscribed is answered with a rejection and leaves the
\* existing subscription, its secret included, unchanged.
C14_OneSubscriptionPerUrl == []UniqueCallbackUrls /\ [][DuplicateRejected]_vars

\* a verified subscribe call for an already subscribed URL was rejected
C14_Witness ==
    /\ api.op = "subscribe"
    /\ api.challenge_result = api.challenge
    /\ api.callback_url \in SubscribedUrls(subscriptions)
    /\ api.answer.status_code = 500

\* values a stored secret can have
SecretValues == { "s1", "s2", "gen1", "x" }

\* the store with the secret of row i replaced by f[i]
WithSecrets(subs, f) == [i \in DOMAIN subs |-> [subs[i] EXCEPT !.secret = f[i]]]

\* C15: the answer of the list-subscribers call contains no secret: on a
\* store that differs from the present one only in the secrets of its rows,
\* the call gives the same answer as the one it gave.
C15_ListIndependentOfSecrets ==
    api.op = "list" =>
        \A f \in [DOMAIN subscriptions -> SecretValues] :
            api.answer = list_webhook_subscribers(WithSecrets(subscriptions, f),
                                                  api.include_disabled)

\* a list call answered with two subscriptions
C15_Witness ==
    /\ api.op = "list"
    /\ api.answer.body.count = 2
    /\ subscriptions[1].secret # subscriptions[2].secret

\* in the sequence e, every b comes after some a
ComesAfter(e, a, b) == \A i \in DOMAIN e : e[i] = b => \E j \in DOMAIN e : j < i /\ e[j] = a

\* C16: for one inbound event the Message row is written before the
\* Conversation is updated, and both before the fan-out task is created; no
\* fan-out task exists for a message that has no row in the Message store.
C16_PersistThenConversationThenFanout ==
    /\ ComesAfter(handled.effects, "messages", "conversations")
    /\ ComesAfter(handled.effects, "messages", "dispatch")
    /\ ComesAfter(handled.effects, "conversations", "dispatch")
    /\ \A i, j \in DOMAIN handled.effects :
          (handled.effects[i] = "dispatch" /\ handled.effects[j] # "dispatch") => j < i
    /\ \A t \in DOMAIN tasks :
          \E m \in DOMAIN messages : messages[m].id = tasks[t].message_data.message_id

\* an individual message went through the three stages
C16_Witness ==
    /\ handled.outcome = "dispatched"
    /\ handled.effects = << "messages", "conversations", "conversations", "dispatch" >>
    /\ tasks # <<>>

\* C17: when normalizing or persisting an event fails (malformed event, error
\* of store_message or of update_conversation) the handler returns normally and
\* no fan-out is dispatched: the listener stays in the stream loop of the same
\* connection, without reconnecting and without sleeping.
C17_HandlerFailureKeepsStream ==
    [][ (IsCall /\ handled'.outcome = "dropped")
        => /\ tasks' = tasks
           /\ listener.pc = "streaming"
           /\ listener'.pc = "streaming"
           /\ listener'.connection = listener.connection
           /\ listener'.attempts = listener.attempts
           /\ listener'.ended = listener.ended
           /\ listener'.waited = listener.waited ]_vars

\* on the first connection an event was dropped and a later line was read
C17_Witness ==
    /\ handled.outcome = "dropped"
    /\ listener.attempts = 1
    /\ listener.pc = "streaming"
    /\ listener.reads = 2
    /\ listener.last # "forwarded"

\* C18: whenever a connection has ended (network error, unreachable endpoint
\* or stream closed by the server) the listener has slept the 5-second delay
\* when it is about to make the next connection attempt.
C18_DelayBeforeEveryReconnect ==
    (listener.pc = "connecting" /\ listener.ended # "none") => listener.waited = ReconnectDelay

\* C19: the listener never terminates: it is always connecting, streaming or
\* sleeping, whatever the number of failed attempts in a row and whatever the
\* lines of the stream; a connection that ends leads back to a connection
\* attempt, after the sleep if there is one.
C19_ListenerNeverTerminates ==
    /\ [](listener.pc \in { "connecting", "streaming", "sleeping" })
    /\ [][ (listener.pc = "streaming" /\ listener'.pc # "streaming")
           => listener'.pc \in { "connecting", "sleeping" } ]_vars
    /\ (listener.pc = "sleeping") ~> (listener.pc = "connecting")

\* back at a connection attempt after three failed attempts in a row
C19_Witness ==
    /\ listener.pc = "connecting"
    /\ listener.failures = 3
    /\ listener.waited = ReconnectDelay

\* a step that reads a data line whose payload is not JSON
ReadsNotJson == listener'.reads = listener.reads + 1 /\ listener'.last = "not json"

\* C20: a data line whose payload is not valid JSON is skipped: nothing is
\* handed to the handler, nothing is stored or dispatched, and the listener
\* stays in the stream loop of the same connection, without reconnecting.
C20_BadJsonLineSkipped ==
    [][ ReadsNotJson
        => /\ UNCHANGED << messages, conversations, sqlite_sequence, tasks, calls, handled >>
           /\ listener.pc = "streaming"
           /\ listener'.pc = "streaming"
           /\ listener'.connection = listener.connection
           /\ listener'.attempts = listener.attempts
           /\ listener'.ended = listener.ended
           /\ listener'.waited = listener.waited ]_vars

\* after a skipped line, an event of the same connection was handled and dispatched
C20_Witness ==
    /\ listener.skipped = 1
    /\ listener.last = "forwarded"
    /\ handled.outcome = "dispatched"
    /\ listener.pc = "streaming"

\* the rows of a conversations table that belong to other peers than peer
OtherConversations(convs, peer) == { r \in convs : r.contact_number # peer }

\* C22: a message with a group identifier updates only the Conversation keyed
\* by that group identifier and leaves the one keyed by the sender unchanged
\* or absent; a message without a group identifier updates only the
\* Conversation keyed by the sender.
C22_OnlyThePeerConversationChanges ==
    [][ (IsCall /\ HasDataMessage(handled'.data))
        => /\ OtherConversations(conversations', PeerOf(handled'.data))
                = OtherConversations(conversations, PeerOf(handled'.data))
           /\ handled'.outcome = "dispatched"
                => MessageCount(conversations', PeerOf(handled'.data))
                     > MessageCount(conversations, PeerOf(handled'.data)) ]_vars

\* a group message was stored when its sender had a Conversation of their own
C22_Witness ==
    /\ handled.outcome = "dispatched"
    /\ GroupIdOf(handled.data) = "g1"
    /\ MessageCount(conversations, SenderOf(handled.data)) > 0
    /\ MessageCount(conversations, "g1") > 0

\* C23: for every peer, last_message_at of the Conversation never decreases
\* from one state to the next, whatever the order of the origin timestamps.
C23_LastActivityNeverDecreases ==
    [][ \A r \in conversations : \A q \in conversations' :
           q.contact_number = r.contact_number => q.last_message_at >= r.last_message_at ]_vars

\* C24: a Conversation row whose group flag is set keeps it set in every
\* later state.
C24_GroupFlagNeverCleared ==
    [][ \A r \in conversations :
           r.is_group = 1 =>
              \E q \in conversations' : q.contact_number = r.contact_number /\ q.is_group = 1 ]_vars

\* the peer a Message row belongs to
PeerOfRow(row) == IF TruthyStr(row.group_id) THEN row.group_id ELSE row.sender_number

\* C25: there is at most one Conversation row per peer identifier, and every
\* persisted message has the one row of its peer.
C25_OneConversationPerPeer ==
    /\ \A r, q \in conversations : r.contact_number = q.contact_number => r = q
    /\ \A i \in DOMAIN messages :
          Cardinality({ r \in conversations : r.contact_number = PeerOfRow(messages[i]) }) = 1

\* two messages of one peer and a single row for it
C25_Witness ==
    /\ Len(messages) >= 2
    /\ PeerOfRow(messages[1]) = PeerOfRow(messages[2])
    /\ Cardinality({ r \in conversations : r.contact_number = PeerOfRow(messages[1]) }) = 1
    /\ MessageCount(conversations, PeerOfRow(messages[1])) >= 2

\* C26: the identifiers of the persisted messages are pairwise distinct and
\* strictly increasing in persistence order, none above the store's counter.
C26_MessageIdsIncrease ==
    /\ \A i, j \in DOMAIN messages : i < j => messages[i].id < messages[j].id
    /\ \A i \in DOMAIN messages : messages[i].id >= 1 /\ messages[i].id <= sqlite_sequence

\* three messages persisted
C26_Witness ==
    /\ Len(messages) = 3
    /\ messages[1].id < messages[2].id
    /\ messages[2].id < messages[3].id

\* a step of the fan-out tasks (not a call of the handler)
IsFanoutStep == tasks' # tasks /\ ~IsCall

\* a delivery of task t has sent a POST that is not answered yet, or sleeps
\* before a retry
InFlight(t) ==
    /\ tasks[t].status = "gathering"
    /\ \E i \in DOMAIN tasks[t].deliveries :
          tasks[t].deliveries[i].status \in { "awaiting", "sleeping" }

\* C21: fan-out does not block ingestion.  Whatever the fan-out tasks of
\* earlier events are doing (pending, POST in flight, backoff sleep), the
\* listener can hand the next event to process_incoming_message, which
\* persists it; and no step of a fan-out task changes what the handler left
\* behind for an event: its message row (processed flag included), its
\* conversation, the id counter and the outcome of the call.
C21_FanoutDoesNotBlockIngestion ==
    /\ [](calls < MaxSystemEvents => ENABLED ReceiveSystem)
    /\ [][IsFanoutStep
           => UNCHANGED << messages, conversations, sqlite_sequence, handled, calls >>]_vars

\* C21 witness: the second event is persisted and its fan-out not yet run
\* while a delivery of the first event waits for its answer or sleeps
C21_Witness ==
    /\ Len(tasks) = 2
    /\ Len(messages) = 2
    /\ handled.outcome = "dispatched"
    /\ tasks[2].status = "pending"
    /\ InFlight(1)
    /\ \E i \in DOMAIN tasks[1].deliveries : tasks[1].deliveries[i].status = "sleeping"

\* C27: the messages table is append-only.  No step of the handler (store and
\* conversation update), of the subscribe and unsubscribe handlers or of a
\* delivery removes a message row or changes a field of a row that is
\* already there: every step leaves the rows it finds in place, unchanged.
C27_MessagesAppendOnly ==
    [][/\ Len(messages') >= Len(messages)
       /\ \A i \in DOMAIN messages : messages'[i] = messages[i]]_vars

\* C27 witness: a message was stored after an earlier one, its conversation
\* updated, an outcome of its delivery recorded, and the router handlers
\* have changed the subscription
C27_Witness ==
    /\ Len(messages) = 2
    /\ handled.effects = << "messages", "conversations", "conversations", "dispatch" >>
    /\ api.n = 2
    /\ \E p \in Deliveries : Len(Delivery(p).recorded) >= 1

\* the POSTs a step sends: the requests added to the log of a delivery
PostsSent ==
    UNION { { tasks'[t].deliveries[i].posts[Len(tasks'[t].deliveries[i].posts)] :
                i \in { j \in DOMAIN tasks[t].deliveries :
                          Len(tasks'[t].deliveries[j].posts)
                              = Len(tasks[t].deliveries[j].posts) + 1 } } :
            t \in { u \in DOMAIN tasks : tasks[u].status = "gathering" } }

\* C28: every webhook POST carries in X-Signal-HMAC the HMAC of the body it
\* sends, keyed with the secret the subscription store holds for the callback
\* URL when the POST is sent; retries included, and with subscribe and
\* unsubscribe calls made between the attempts.
C28_SignedWithStoredSecret ==
    [][\A post \in PostsSent :
         \A k \in DOMAIN subscriptions :
            subscriptions[k].callback_url = post.url
            => post.headers.XSignalHMAC = compute_hmac(post.content, subscriptions[k].secret)]_vars

\* the delivery of task t has been answered with HTTP 200 and the success is
\* recorded
Delivered(t) ==
    \E i \in DOMAIN tasks[t].deliveries :
        LET d == tasks[t].deliveries[i] IN
        /\ d.status = "done"
        /\ d.responses[Len(d.responses)] = "200"
        /\ d.recorded[Len(d.recorded)] = "success"

\* C30: the order in which a subscriber receives events is not tied to the
\* order of ingestion.  The fan-out of a message never waits for the fan-out
\* of a message ingested before it: a pending fan-out can start and a
\* delivery that has not ended can take its next step whatever the tasks of
\* other messages are doing, so that the first successful delivery of a later
\* message can complete before that of an earlier one (the witness).
C30_DeliveryOrderNotTiedToIngestion ==
    /\ \A t \in DOMAIN tasks : tasks[t].status = "pending" => ENABLED NotifyAll(t, FALSE)
    /\ \A p \in Deliveries : ~Terminal(Delivery(p)) => CanStep(p)

\* C30 witness: m1 was ingested before m2 (smaller message id, earlier task),
\* the delivery of m2 to the subscriber has succeeded, and the delivery of m1
\* to the same subscriber has not: its POSTs so far failed and it sleeps
\* before a retry
C30_Witness ==
    /\ Len(tasks) = 2
    /\ tasks[1].message_data.message_id < tasks[2].message_data.message_id
    /\ Delivered(2)
    /\ ~Delivered(1)
    /\ \E i \in DOMAIN tasks[1].deliveries :
          /\ tasks[1].deliveries[i].status = "sleeping"
          /\ tasks[1].deliveries[i].callback_url = SystemUrl
    /\ \A i \in DOMAIN tasks[2].deliveries : tasks[2].deliveries[i].callback_url = SystemUrl

\* the last call of the handler persisted message id, the store raising
\* nothing, while a subscription is enabled
PersistedForSubscriber(id) ==
    /\ handled.fault = "none"
    /\ \E k \in DOMAIN handled.effects : handled.effects[k] = "messages"
    /\ messages # <<>>
    /\ messages[Len(messages)].id = id
    /\ \E k \in DOMAIN subscriptions : subscriptions[k].enabled

\* the deliveries of message id
DeliveriesOf(id) == { p \in Deliveries : Delivery(p).message_data.message_id = id }

\* C29: at-least-once delivery.  Once a message is persisted while a
\* subscription is enabled, a POST of its new_message event to the callback
\* URL is eventually attempted; and once an attempt (of at most four) is
\* answered with HTTP 200, a success is eventually recorded for it.
C29_AtLeastOnceDelivery ==
    \A id \in 1..MaxDeliverEvents :
        /\ PersistedForSubscriber(id)
              ~> (\E p \in DeliveriesOf(id) :
                    /\ Len(Delivery(p).posts) >= 1
                    /\ Delivery(p).callback_url = SystemUrl)
        /\ (\E p \in DeliveriesOf(id) :
               \E k \in DOMAIN Delivery(p).responses :
                  k <= MaxRetries + 1 /\ Delivery(p).responses[k] = "200")
              ~> (\E p \in DeliveriesOf(id) :
                    \E k \in DOMAIN Delivery(p).recorded : Delivery(p).recorded[k] = "success")

\* the rows of subs, whatever their position
Rows(subs) == { subs[i] : i \in DOMAIN subs }

\* C31: an unsubscribe call for a callback URL that has a subscription removes
\* the row of that URL and no other row, and is answered 200; a call for a
\* URL without a subscription is answered 404 (not found) and leaves the
\* subscription store as it was.
C31_UnsubscribeRemovesThatUrlOnly ==
    [][(IsApiCall /\ api'.op = "unsubscribe")
       => IF api'.callback_url \in SubscribedUrls(subscriptions)
          THEN /\ api'.answer.status_code = 200
               /\ api'.callback_url \notin SubscribedUrls(subscriptions')
               /\ Len(subscriptions') = Len(subscriptions) - 1
               /\ Rows(subscriptions')
                     = { row \in Rows(subscriptions) : row.callback_url # api'.callback_url }
          ELSE /\ api'.answer.status_code = 404
               /\ subscriptions' = subscriptions]_vars

\* C31 witness: a URL without a subscription was answered 404 after an
\* earlier call had removed a subscription and left another one in place
C31_Witness ==
    /\ api.n = 2
    /\ api.op = "unsubscribe"
    /\ api.answer.status_code = 404
    /\ Len(subscriptions) = 1
    /\ subscriptions[1].callback_url = "http://u2/hook"

\* C32: on the send path, a call whose upstream send succeeded answers with
\* success whether or not recording the sent message raised, and a call whose
\* upstream send failed answers with an error.
C32_SendSucceedsDespiteStorageFailure ==
    [][(IsApiCall /\ api'.op = "send")
       => IF api'.reply.kind = "result"
          THEN api'.answer.status_code = 200 /\ api'.answer.body.success
          ELSE api'.answer.status_code = 500]_vars

\* C32 witness: the upstream send succeeded, recording raised, and the call
\* answered success without a message id
C32_Witness ==
    /\ api.op = "send"
    /\ api.reply.kind = "result"
    /\ api.store_raised
    /\ api.answer.status_code = 200
    /\ api.answer.body.message_id = None

\* a delivery has made at most four POSTs, and if it has ended it ended on its
\* first HTTP 200 or with its retries exhausted
EndsOn200OrExhaustion(d) ==
    /\ Len(d.posts) <= MaxRetries + 1
    /\ \A k \in DOMAIN d.responses : d.responses[k] = "200" => k = Len(d.responses)
    /\ Terminal(d)
         => \/ d.responses[Len(d.responses)] = "200"
            \/ Len(d.posts) = MaxRetries + 1

\* every delivery of task t has ended
AllEnded(t) ==
    /\ t \in DOMAIN tasks
    /\ \A i \in DOMAIN tasks[t].deliveries : Terminal(tasks[t].deliveries[i])

\* C33: every deliver call terminates.  Whatever the endpoint answers, a
\* delivery that was started eventually ends, after at most four POSTs, and
\* it ends either on its first HTTP 200 or when its retries are exhausted.
C33_DeliverTerminates ==
    /\ [](\A p \in Deliveries : EndsOn200OrExhaustion(Delivery(p)))
    /\ \A t \in 1..MaxDeliverEvents :
          (t \in DOMAIN tasks /\ tasks[t].status = "gathering") ~> AllEnded(t)

\* C34: every attempt of a delivery, the first POST and each retry, sends
\* the body and the X-Signal-HMAC signature of the first attempt, to the same
\* URL.
C34_RetriesSendTheSameBytes ==
    \A p \in Deliveries :
        LET posts == Delivery(p).posts IN
        \A k \in DOMAIN posts :
            /\ posts[k].content = posts[1].content
            /\ posts[k].headers.XSignalHMAC = posts[1].headers.XSignalHMAC
            /\ posts[k].url = posts[1].url

\* C34 witness: a delivery that has sent its first POST and three retries
C34_Witness ==
    \E p \in Deliveries :
        /\ Len(Delivery(p).posts) = MaxRetries + 1
        /\ Len(Delivery(p).waits) = MaxRetries

\* the fan-out envelope md is the one of the stored row
EnvelopeOfRow(md, row) ==
    /\ md.event = "new_message"
    /\ md.message_id = row.id
    /\ md.sender_number = row.sender_number
    /\ md.message_body = row.message_body
    /\ md.timestamp = row.timestamp
    /\ md.group_id = row.group_id

\* C35: the call of the handler that dispatches a fan-out has persisted one
\* row for its event, and the envelope it dispatches has event type
\* new_message and the message id the store gave to that row; no two
\* envelopes carry the same id, so none carries the id of another event's row.
C35_EnvelopeCarriesItsOwnMessageId ==
    /\ [][(IsCall /\ handled'.outcome = "dispatched")
           => /\ Len(tasks') = Len(tasks) + 1
              /\ Len(messages') = Len(messages) + 1
              /\ messages'[Len(messages')].id \notin { messages[i].id : i \in DOMAIN messages }
              /\ EnvelopeOfRow(tasks'[Len(tasks')].message_data,
                               messages'[Len(messages')])]_vars
    /\ [](\A t, u \in DOMAIN tasks :
            tasks[t].message_data.message_id = tasks[u].message_data.message_id => t = u)

\* C35 witness: three events dispatched, the envelope of the last one with
\* the id of the third row
C35_Witness ==
    /\ Len(tasks) = 3
    /\ Len(messages) = 3
    /\ tasks[3].message_data.message_id = 3
    /\ tasks[3].message_data.group_id # tasks[2].message_data.group_id

\* the deliveries whose attempt is answered in this step, each with the answer
AttemptsAnswered ==
    { << p, tasks'[p[1]].deliveries[p[2]].responses[Len(Delivery(p).responses) + 1] >> :
        p \in { q \in Deliveries :
                  Len(tasks'[q[1]].deliveries[q[2]].responses)
                      = Len(Delivery(q).responses) + 1 } }

\* the successes and the failures recorded on the subscription of url (the
\* callback URL is a unique key)
Recorded(subs, url) ==
    LET rows == { i \in DOMAIN subs : subs[i].callback_url = url } IN
    IF rows = {}
    THEN [success |-> 0, failure |-> 0]
    ELSE LET i == CHOOSE j \in rows : TRUE
         IN  [success |-> subs[i].success_count, failure |-> subs[i].failure_count]

\* C36: every delivery attempt records exactly one outcome on the
\* subscription: the step in which an attempt is answered adds one success
\* and no failure when the answer is HTTP 200, one failure and no success
\* otherwise; and no other step of a delivery records anything.
C36_OneOutcomePerAttempt ==
    [][IsFanoutStep
       => /\ Cardinality(AttemptsAnswered) <= 1
          /\ AttemptsAnswered = {} => subscriptions' = subscriptions
          /\ \A a \in AttemptsAnswered :
                LET url == Delivery(a[1]).callback_url
                    before == Recorded(subscriptions, url)
                    after == Recorded(subscriptions', url)
                IN  /\ after.success = before.success + (IF a[2] = "200" THEN 1 ELSE 0)
                    /\ after.failure = before.failure + (IF a[2] = "200" THEN 0 ELSE 1)]_vars

\* C36 witness: attempts of deliveries to the subscriber answered with a
\* timeout, a status 500 and a status 200, with two failures and one success
\* on its subscription
C36_Witness ==
    /\ Recorded(subscriptions, SystemUrl) = [success |-> 1, failure |-> 2]
    /\ \E p, q \in Deliveries :
          /\ Delivery(p).responses = << "exception", "200" >>
          /\ Delivery(q).responses = << "500" >>

\* a line of the stream is read in this step
ReadsLine == listener'.reads = listener.reads + 1

\* the line starts with the data: marker and its text decodes as JSON
IsEventLine(line) == line.field = "data" /\ "json_text_of" \in DOMAIN line.text

\* C37: the listener hands to the handler exactly the lines that start with
\* data: and decode as JSON: reading such a line makes one call of the handler
\* with the decoded value, unmodified, before the next line is read; reading
\* any other line makes no call and changes nothing in the store; the handler
\* is called from nowhere else.  A row persisted by a call is the row of the
\* line just read and the last of the table, so that message ids increase in
\* stream order.
C37_ForwardsEventLinesInOrder ==
    /\ [][ReadsLine
           => IF IsEventLine(listener'.line)
              THEN /\ calls' = calls + 1
                   /\ handled'.data = listener'.line.text.json_text_of
                   /\ listener'.last = "forwarded"
                   /\ Len(messages') > Len(messages)
                        => /\ Len(messages') = Len(messages) + 1
                           /\ messages'[Len(messages')].raw_data
                                 = JsonDumps(JsonDumps(listener'.line.text.json_text_of))
                           /\ \A i \in DOMAIN messages :
                                 /\ messages'[i] = messages[i]
                                 /\ messages[i].id < messages'[Len(messages')].id
              ELSE UNCHANGED << calls, handled, messages, conversations, sqlite_sequence,
                                tasks >>]_vars
    /\ [][calls' # calls => ReadsLine]_vars

\* C37 witness: a line without the data: marker was read and ignored after
\* an event line was forwarded and persisted
C37_Witness ==
    /\ listener.reads = 2
    /\ listener.line.field = "id"
    /\ listener.last = "ignored"
    /\ calls = 1
    /\ Len(messages) = 1

\* C38 (as claimed): once an unsubscribe call for a callback URL has
\* completed, no POST is sent to that URL any more: every POST goes to a URL
\* that has a subscription when it is sent.
C38_NoPostAfterUnsubscribe ==
    [][\A post \in PostsSent : post.url \in SubscribedUrls(subscriptions)]_vars

\* the fan-out tasks started in this step
FanoutsStarted ==
    { t \in DOMAIN tasks : tasks[t].status = "pending" /\ tasks'[t].status # "pending" }

\* C38 (amended): an unsubscribe keeps later fan-outs from the URL and leaves
\* the deliveries already started alone.  A fan-out that starts creates
\* deliveries only for URLs that have an enabled subscription at that moment;
\* a delivery that has started and not ended can take its next step (answer,
\* retry after the sleep) whether or not its URL still has a subscription;
\* and while its URL has no subscription its outcomes change no row of the
\* subscription store.
C38_UnsubscribeStopsNewDeliveriesOnly ==
    /\ [][\A t \in FanoutsStarted :
            \A i \in DOMAIN tasks'[t].deliveries :
               \E k \in DOMAIN subscriptions :
                  /\ subscriptions[k].enabled
                  /\ subscriptions[k].callback_url = tasks'[t].deliveries[i].callback_url]_vars
    /\ [](\A p \in Deliveries : ~Terminal(Delivery(p)) => CanStep(p))
    /\ [][\A a \in AttemptsAnswered :
            Delivery(a[1]).callback_url \notin SubscribedUrls(subscriptions)
            => subscriptions' = subscriptions]_vars

\* C38 witness: the subscriber has unsubscribed, and the delivery that was
\* started before has made all its retries and ended, with nothing recorded
\* in the store
C38_Witness ==
    /\ api.op = "unsubscribe"
    /\ api.answer.status_code = 200
    /\ subscriptions = <<>>
    /\ \E p \in Deliveries :
          /\ Len(Delivery(p).posts) = MaxRetries + 1
          /\ Delivery(p).status = "done"
          /\ Delivery(p).callback_url = api.callback_url

\* the fan-out tasks dispatched for the message row
TasksOf(row) == { t \in DOMAIN tasks : tasks[t].message_data.message_id = row.id }

\* C39: every persisted message has exactly one fan-out dispatch.  Between
\* two calls of the handler (each call has returned), every row of the
\* messages table has one fan-out task with its message id, no more and no
\* less, also when the conversation update failed after the row was stored.
C39_OneDispatchPerPersistedMessage ==
    \A i \in DOMAIN messages : Cardinality(TasksOf(messages[i])) = 1

\* C40: the webhook subsystem sends HTTP requests only to callback URLs whose
\* host is in the configured allow-list: the challenge of a subscribe call,
\* every POST of an event delivery, and every POST of a test delivery.
C40_RequestsOnlyToAllowListedHosts ==
    [][/\ \A post \in PostsSent : HostAllowListed(post.url)
       /\ IsApiCall => \A k \in DOMAIN api'.sent : HostAllowListed(api'.sent[k].url)]_vars


====
